---- MODULE Spec2Model ----
(***************************************************************************)
(* A model of fake_llm_server: the serving lifecycle of FakeLLMServer      *)
(* (_serving.py), the configuration parser parse_server_args and the two   *)
(* HTTP handlers (_api_server.py), and the model resolver (_models.py).    *)
(*                                                                         *)
(* Every FakeLLMServer instance has a caller context (the constructor and  *)
(* the later shutdown calls) and a worker thread (ServingThread).  The two *)
(* interleave at the granularity of their reads and writes of the shared   *)
(* StartInfo, the thread handle and the uvicorn server's should_exit flag. *)
(***************************************************************************)
EXTENDS Integers, Sequences, FiniteSets, TLC

\* ------------------------------------------------------------------ bounds
\* Number of TCP ports the operating system can hand out.
NumPorts == 2
\* The startup ceiling of _wait_for_start, in poll intervals.
Timeout == 1
\* Explicit shutdown() calls (including the destructor's) made per instance.
MaxShutdowns == 2
\* Requests that can be inside a handler at one time, per worker.
MaxInflight == 1

\* The FakeLLMServer instances living in the process.
Servers == {1, 2}
Ports == 1..NumPorts

\* ------------------------------------------------------- the model resolver
\* Keys of SUPPORTED_MODEL_ALIASES.
SUPPORTED_MODEL_ALIASES ==
  [n \in {"qwen-2.5-coder-3b", "qwen-2.5-coder-1.5b", "llama-3.2-3b-instruct",
          "smollm3", "gemma-3-1b", "gemma-3-270m"} |->
     CASE n = "qwen-2.5-coder-3b" ->
            [model_name |-> n, repo_id |-> "Qwen/Qwen2.5-Coder-3B-Instruct-GGUF",
             filename |-> "qwen2.5-coder-3b-instruct-q4_k_m.gguf"]
       [] n = "qwen-2.5-coder-1.5b" ->
            [model_name |-> n, repo_id |-> "Qwen/Qwen2.5-Coder-1.5B-Instruct-GGUF",
             filename |-> "qwen2.5-coder-1.5b-instruct-q4_k_m.gguf"]
       [] n = "llama-3.2-3b-instruct" ->
            [model_name |-> n, repo_id |-> "bartowski/Llama-3.2-3B-Instruct-GGUF",
             filename |-> "Llama-3.2-3B-Instruct-Q4_K_M.gguf"]
       [] n = "smollm3" ->
            [model_name |-> n, repo_id |-> "ggml-org/SmolLM3-3B-GGUF",
             filename |-> "SmolLM3-Q4_K_M.gguf"]
       [] n = "gemma-3-1b" ->
            [model_name |-> n, repo_id |-> "unsloth/gemma-3-1b-it-GGUF",
             filename |-> "gemma-3-1b-it-Q4_K_M.gguf"]
       [] OTHER ->
            [model_name |-> n, repo_id |-> "unsloth/gemma-3-270m-it-GGUF",
             filename |-> "gemma-3-270m-it-Q4_K_M.gguf"]]

\* Identifiers that contain a '/' (the test `"/" in model_name`).
SlashNames == {"unsloth/gemma-3-270m-it-GGUF", "acme/tiny"}
HasSlash(name) == name \in SlashNames

\* File names a repository listing can hold, with the two string tests
\* from_repo_id applies to them.
EndsWithGguf(f) ==
  f \in {"gemma-3-270m-it-Q4_K_M.gguf", "gemma-3-270m-it-Q8_0.gguf",
         "tiny-f16.gguf", "tiny-q4_k_m.gguf"}
ContainsQ4KM(f) ==
  f \in {"gemma-3-270m-it-Q4_K_M.gguf", "tiny-q4_k_m.gguf", "q4_k_m-notes.md"}

RECURSIVE SelectSeq2(_, _)
\* [f for f in files if test(f)], for the two list comprehensions.
SelectSeq2(files, which) ==
  IF files = << >> THEN << >>
  ELSE LET f == Head(files)
           keep == IF which = "gguf" THEN EndsWithGguf(f) ELSE ContainsQ4KM(f)
       IN (IF keep THEN <<f>> ELSE << >>) \o SelectSeq2(Tail(files), which)

\* The state of the remote hub a construction runs against:
\*   listing[repo]  [ok, files]: whether list_repo_files returns, and what
\*   down           the repositories hf_hub_download fails for
NoError == [kind |-> "ok", about |-> ""]
Error(kind, about) == [kind |-> kind, about |-> about]

\* A from_repo_id that looks for the preferred quantisation among all the
\* listed files.
from_repo_id_AnyQ4(repo_id, hub) ==
  LET call == <<[op |-> "list_repo_files", repo |-> repo_id, file |-> ""]>> IN
  IF ~hub.listing[repo_id].ok
  THEN [err |-> Error("ValueError:Could not list files for repo", repo_id),
        calls |-> call]
  ELSE LET gguf_files == SelectSeq2(hub.listing[repo_id].files, "gguf")
           preferred == SelectSeq2(hub.listing[repo_id].files, "q4")
       IN IF gguf_files = << >>
          THEN [err |-> Error("ValueError:No .gguf files found in", repo_id),
                calls |-> call]
          ELSE [err |-> NoError, calls |-> call,
                spec |-> [model_name |-> repo_id, repo_id |-> repo_id,
                          filename |-> IF preferred # << >> THEN preferred[1]
                                       ELSE gguf_files[1]]]

\* ModelSpec.from_repo_id
from_repo_id(repo_id, hub) ==
  LET call == <<[op |-> "list_repo_files", repo |-> repo_id, file |-> ""]>> IN
  IF ~hub.listing[repo_id].ok
  THEN [err |-> Error("ValueError:Could not list files for repo", repo_id),
        calls |-> call]
  ELSE LET gguf_files == SelectSeq2(hub.listing[repo_id].files, "gguf")
           preferred == SelectSeq2(gguf_files, "q4")
       IN IF gguf_files = << >>
          THEN [err |-> Error("ValueError:No .gguf files found in", repo_id),
                calls |-> call]
          ELSE [err |-> NoError, calls |-> call,
                spec |-> [model_name |-> repo_id, repo_id |-> repo_id,
                          filename |-> IF preferred # << >> THEN preferred[1]
                                       ELSE gguf_files[1]]]

\* A from_name without the catalog lookup.
from_name_RepoOnly(model_name, hub) ==
  IF HasSlash(model_name)
  THEN from_repo_id(model_name, hub)
  ELSE [err |-> Error("ValueError:Model not supported", model_name),
        calls |-> << >>]

\* ModelSpec.from_name
from_name(model_name, hub) ==
  IF model_name \in DOMAIN SUPPORTED_MODEL_ALIASES
  THEN [err |-> NoError, calls |-> << >>,
        spec |-> SUPPORTED_MODEL_ALIASES[model_name]]
  ELSE IF HasSlash(model_name)
       THEN from_repo_id(model_name, hub)
       ELSE [err |-> Error("ValueError:Model not supported", model_name),
             calls |-> << >>]

\* A download that lets the failure of the fetch through as it is.
download_Unwrapped(spec, hub) ==
  LET call == <<[op |-> "hf_hub_download", repo |-> spec.repo_id,
                  file |-> spec.filename]>> IN
  IF spec.repo_id \in hub.down
  THEN [err |-> Error("OSError:hub unreachable", ""), calls |-> call]
  ELSE [err |-> NoError, calls |-> call,
        model |-> [model_name |-> spec.model_name,
                   model_path |-> <<spec.repo_id, spec.filename>>]]

\* ModelSpec.download: the local path is the hub cache's path of
\* (repo_id, filename).
download(spec, hub) ==
  LET call == <<[op |-> "hf_hub_download", repo |-> spec.repo_id,
                  file |-> spec.filename]>> IN
  IF spec.repo_id \in hub.down
  THEN [err |-> Error("RuntimeError:Failed to download model from", spec.repo_id),
        calls |-> call]
  ELSE [err |-> NoError, calls |-> call,
        model |-> [model_name |-> spec.model_name,
                   model_path |-> <<spec.repo_id, spec.filename>>]]

\* ------------------------------------------------------- parse_server_args
\* model_names is [isTuple, names]; aliases is the dict's item sequence
\* <<alias, target>> in insertion order, keys distinct.
Values(aliases) == [k \in 1..Len(aliases) |-> aliases[k][2]]
SeqToSet(s) == {s[k] : k \in 1..Len(s)}

RECURSIVE FirstBad(_, _)
\* The first alias target that is not in model_names, "" when there is none.
FirstBad(targets, names) ==
  IF targets = << >> THEN ""
  ELSE IF Head(targets) \notin SeqToSet(names) THEN Head(targets)
       ELSE FirstBad(Tail(targets), names)

\* dict assignment d[k] = v
Put(d, k, v) == [x \in DOMAIN d \cup {k} |-> IF x = k THEN v ELSE d[x]]
EmptyDict == [x \in {} |-> 0]

RECURSIVE LoadModels_PerName(_, _, _)
\* A load loop that keeps its loaded engines by identifier instead of by
\* local path.
LoadModels_PerName(names, hub, acc) ==
  IF names = << >> THEN acc
  ELSE LET name == Head(names)
           r == from_name(name, hub)
       IN IF r.err.kind # "ok"
          THEN [acc EXCEPT !.err = r.err, !.calls = acc.calls \o r.calls]
          ELSE LET d == download(r.spec, hub)
                   c1 == acc.calls \o r.calls \o d.calls
               IN IF d.err.kind # "ok"
                  THEN [acc EXCEPT !.err = d.err, !.calls = c1]
                  ELSE LET path == d.model.model_path
                           fresh == name \notin DOMAIN acc.loaded_models
                           lm == IF fresh
                                 THEN Put(acc.loaded_models, name, acc.n_loaded + 1)
                                 ELSE acc.loaded_models
                           c2 == IF fresh
                                 THEN c1 \o <<[op |-> "Llama", repo |-> path[1],
                                               file |-> path[2]]>>
                                 ELSE c1
                       IN LoadModels_PerName(Tail(names), hub,
                            [err |-> NoError,
                             llms |-> Put(acc.llms, name, lm[name]),
                             loaded_models |-> lm,
                             calls |-> c2,
                             n_loaded |-> IF fresh THEN acc.n_loaded + 1
                                          ELSE acc.n_loaded])

RECURSIVE LoadModels(_, _, _)
\* The loop "for name in model_names": acc is
\* [err, llms, loaded_models, calls, n_loaded]; a Llama handle is the
\* ordinal of the load call that created it.
LoadModels(names, hub, acc) ==
  IF names = << >> THEN acc
  ELSE LET name == Head(names)
           r == from_name(name, hub)
       IN IF r.err.kind # "ok"
          THEN [acc EXCEPT !.err = r.err, !.calls = acc.calls \o r.calls]
          ELSE LET d == download(r.spec, hub)
                   c1 == acc.calls \o r.calls \o d.calls
               IN IF d.err.kind # "ok"
                  THEN [acc EXCEPT !.err = d.err, !.calls = c1]
                  ELSE LET path == d.model.model_path
                           fresh == path \notin DOMAIN acc.loaded_models
                           lm == IF fresh
                                 THEN Put(acc.loaded_models, path, acc.n_loaded + 1)
                                 ELSE acc.loaded_models
                           c2 == IF fresh
                                 THEN c1 \o <<[op |-> "Llama", repo |-> path[1],
                                               file |-> path[2]]>>
                                 ELSE c1
                       IN LoadModels(Tail(names), hub,
                            [err |-> NoError,
                             llms |-> Put(acc.llms, name, lm[path]),
                             loaded_models |-> lm,
                             calls |-> c2,
                             n_loaded |-> IF fresh THEN acc.n_loaded + 1
                                          ELSE acc.n_loaded])

RECURSIVE MapAliases(_, _)
\* The loop "for alias, target in aliases.items(): llms[alias] = llms[target]"
MapAliases(aliases, llms) ==
  IF aliases = << >> THEN llms
  ELSE MapAliases(Tail(aliases),
                  Put(llms, Head(aliases)[1], llms[Head(aliases)[2]]))

ParseStart ==
  [err |-> NoError, llms |-> EmptyDict, loaded_models |-> EmptyDict,
   calls |-> << >>, n_loaded |-> 0]

\* A parse_server_args that validates the aliases only after the models
\* were resolved, downloaded and loaded.
parse_server_args_LoadFirst(model_names, aliases, hub) ==
  IF ~model_names.isTuple
  THEN [ParseStart EXCEPT !.err = Error("TypeError:model_names must be a tuple", "")]
  ELSE LET r == LoadModels(model_names.names, hub, ParseStart)
           bad == FirstBad(Values(aliases), model_names.names)
       IN IF r.err.kind # "ok" THEN r
          ELSE IF bad # ""
               THEN [r EXCEPT !.err = Error("ValueError:Alias target not in model_names", bad)]
               ELSE [r EXCEPT !.llms = MapAliases(aliases, r.llms)]

\* A parse_server_args that follows aliases of aliases: a target may be a
\* key of the aliases mapping as well.
parse_server_args_Transitive(model_names, aliases, hub) ==
  IF ~model_names.isTuple
  THEN [ParseStart EXCEPT !.err = Error("TypeError:model_names must be a tuple", "")]
  ELSE LET keys == [k \in 1..Len(aliases) |-> aliases[k][1]]
           bad == FirstBad(Values(aliases), model_names.names \o keys) IN
       IF bad # ""
       THEN [ParseStart EXCEPT
               !.err = Error("ValueError:Alias target not in model_names", bad)]
       ELSE LET r == LoadModels(model_names.names, hub, ParseStart) IN
            IF r.err.kind # "ok" THEN r
            ELSE [r EXCEPT !.llms = MapAliases(aliases, r.llms)]

\* parse_server_args
parse_server_args(model_names, aliases, hub) ==
  IF ~model_names.isTuple
  THEN [ParseStart EXCEPT !.err = Error("TypeError:model_names must be a tuple", "")]
  ELSE LET bad == FirstBad(Values(aliases), model_names.names) IN
       IF bad # ""
       THEN [ParseStart EXCEPT
               !.err = Error("ValueError:Alias target not in model_names", bad)]
       ELSE LET r == LoadModels(model_names.names, hub, ParseStart) IN
            IF r.err.kind # "ok" THEN r
            ELSE [r EXCEPT !.llms = MapAliases(aliases, r.llms)]

\* ----------------------------------------------------- construction inputs
Listing(ok, files) == [ok |-> ok, files |-> files]
HubListing ==
  [r \in SlashNames |->
     IF r = "acme/tiny" THEN Listing(TRUE, <<"README.md", "tiny-f16.gguf">>)
     ELSE Listing(TRUE, <<"q4_k_m-notes.md", "gemma-3-270m-it-Q8_0.gguf",
                          "gemma-3-270m-it-Q4_K_M.gguf">>)]
\* The hub answers; the hub cannot be listed; the hub lists but every fetch
\* fails.
HubUp == [listing |-> HubListing, down |-> {}]
HubUnlisted ==
  [listing |-> [r \in SlashNames |-> Listing(FALSE, << >>)], down |-> {}]
HubDown ==
  [listing |-> HubListing,
   down |-> SlashNames \cup {SUPPORTED_MODEL_ALIASES[n].repo_id :
                              n \in DOMAIN SUPPORTED_MODEL_ALIASES}]
Hubs == {HubUp, HubUnlisted, HubDown}

Names(isTuple, names) == [isTuple |-> isTuple, names |-> names]
Config(model_names, aliases) == [model_names |-> model_names, aliases |-> aliases]
\* The constructor arguments the lifecycle is explored with: a list instead
\* of a tuple (with a bad alias as well), an alias to an alias, an unknown
\* alias target, an unsupported name, the empty tuple, a catalog model with
\* an alias, and a repository identifier.
Configs ==
  { Config(Names(FALSE, <<"gemma-3-270m">>), << <<"my-alias", "unknown-model">> >>),
    Config(Names(TRUE, <<"acme/tiny">>),
           << <<"alias-1", "acme/tiny">>, <<"alias-2", "alias-1">> >>),
    Config(Names(TRUE, <<"gemma-3-270m">>), << <<"my-alias", "unknown-model">> >>),
    Config(Names(TRUE, <<"nonesuch">>), << >>),
    Config(Names(TRUE, << >>), << >>),
    Config(Names(TRUE, <<"gemma-3-270m">>), << <<"my-gemma", "gemma-3-270m">> >>),
    Config(Names(TRUE, <<"acme/tiny">>), << >>) }

\* The arguments the two-instance runs use.
ConfigsTwo ==
  { Config(Names(TRUE, <<"gemma-3-270m">>), << <<"my-alias", "unknown-model">> >>),
    Config(Names(TRUE, << >>), << >>),
    Config(Names(TRUE, <<"gemma-3-270m">>), << <<"my-gemma", "gemma-3-270m">> >>) }

\* The arguments parse_server_args is explored with on its own: every
\* model_names tuple of up to MaxNames identifiers, with every aliases
\* mapping of up to two entries.  "gemma-3-270m" and the repository
\* "unsloth/gemma-3-270m-it-GGUF" resolve to one file; an alias key may be
\* a configured identifier.
MaxNames == 2
NameUniverse == {"gemma-3-270m", "unsloth/gemma-3-270m-it-GGUF", "acme/tiny",
                 "smollm3"}
AliasKeyUniverse == {"fast", "gemma-3-270m"}
Tuples(S, n) == UNION {[1..k -> S] : k \in 0..n}
AliasMappings ==
  {al \in Tuples(AliasKeyUniverse \X (NameUniverse \cup {"fast"}), 2) :
     \A j, k \in 1..Len(al) : j # k => al[j][1] # al[k][1]}
LoadConfigs ==
  {Config(Names(TRUE, ns), al) : ns \in Tuples(NameUniverse, MaxNames),
                                 al \in AliasMappings}

\* -------------------------------------------------------------- the state
VARIABLES
  args,           \* the arguments the constructor was called with
  cpc,            \* caller context: where the constructor is
  outcome,        \* how the constructor ended: returned, or the error raised
  llms,           \* the ServingConfiguration handed to the worker
  calls,          \* the resolver, download and load calls made so far
  has_start_info, \* whether self.start_info was assigned
  probe,          \* the port the probe socket of _get_free_port holds, or 0
  port,           \* StartInfo._port, 0 for None
  server,         \* whether StartInfo._server holds the worker's server
  started_event,  \* StartInfo.started_event
  thread,         \* self.thread: "unset", "Thread" or "None"
  wpc,            \* worker thread: where ServingThread is
  should_exit,    \* uvicorn.Server.should_exit of the worker's server
  sock,           \* the worker's listening socket: none, listening, closed
  inflight,       \* requests inside create_chat_completion
  elapsed,        \* time.time() - start_time, in poll intervals, while
                  \* _wait_for_start runs (0 outside it)
  sd,             \* where the running shutdown() call is, or idle
  sdCount,        \* completed shutdown() calls
  sdJoins,        \* thread.join calls made by the current or last shutdown()
  ext,            \* ports that sockets of other processes are bound to
  client,         \* what the caller's last openai_client_args() returned
  listed,         \* the response to the last GET /v1/models
  last,           \* the last POST /v1/chat/completions and its response
  prev,           \* the one before it
  resolved,       \* the last direct call of the resolver or of the loader,
                  \* and its result
  uvicorn_port,   \* the port of the worker's uvicorn.Config, 0 before it
                  \* exists
  lock,           \* StartInfo._lock: the context that holds it, or "free"
  acc,            \* each context's call of a StartInfo property
  poll,           \* where a _wait_for_server (main.py) that watches the
                  \* worker is, and its poll count
  serving_thread, \* main.py: the instance whose ServingThread
                  \* app.state.serving_thread holds, 0 when the attribute
                  \* is absent
  od              \* where a shutdown() that a second context runs on the
                  \* instance is

\* What the clients of an instance and of the resolver have observed.
api == <<client, listed, last, prev, resolved>>

\* The second contexts of an instance, the StartInfo properties called on
\* their own, and the state of the alternate implementation.
ctx == <<lock, acc, poll, serving_thread, od>>

vars == <<args, cpc, outcome, llms, calls, has_start_info, probe, port, server,
          started_event, thread, wpc, should_exit, sock, inflight, elapsed,
          sd, sdCount, sdJoins, ext, client, listed, last, prev, resolved,
          uvicorn_port, lock, acc, poll, serving_thread, od>>

NoOutcome == [kind |-> "none", about |-> ""]
Returned == [kind |-> "returned", about |-> ""]
WorkerDied == Error("RuntimeError:Server thread died unexpectedly", "")
StartupTimeout == Error("RuntimeError:Server timed out waiting for startup", "")

\* Nothing returned by openai_client_args, no model list received, no chat
\* completion requested, no resolver call made yet.
NoDescriptor == [ret |-> [base_url |-> << >>, api_key |-> ""], stopped |-> FALSE]
NotListed == [status |-> 0, data |-> << >>]
NoExchange == [status |-> 0]
NotResolved == [op |-> "", name |-> "", listing |-> Listing(FALSE, << >>),
                out |-> [err |-> NoError, calls |-> << >>]]

\* The execution contexts that share a StartInfo: the one that constructs
\* and shuts down the instance, and the worker thread.
Contexts == {"spawner", "worker"}
\* No property of StartInfo called, no _wait_for_server running.
NoResult == [err |-> "", port |-> 0, server |-> FALSE]
NoAccess == [op |-> "", pc |-> "idle", arg |-> 0, ret |-> NoResult]
NotPolling == [pc |-> "idle", n |-> 0]

Init ==
  /\ args = [i \in Servers |-> Config(Names(TRUE, << >>), << >>)]
  /\ cpc = [i \in Servers |-> "new"]
  /\ outcome = [i \in Servers |-> NoOutcome]
  /\ llms = [i \in Servers |-> EmptyDict]
  /\ calls = [i \in Servers |-> << >>]
  /\ has_start_info = [i \in Servers |-> FALSE]
  /\ probe = [i \in Servers |-> 0]
  /\ port = [i \in Servers |-> 0]
  /\ server = [i \in Servers |-> FALSE]
  /\ started_event = [i \in Servers |-> FALSE]
  /\ thread = [i \in Servers |-> "unset"]
  /\ wpc = [i \in Servers |-> "none"]
  /\ should_exit = [i \in Servers |-> FALSE]
  /\ sock = [i \in Servers |-> "none"]
  /\ inflight = [i \in Servers |-> 0]
  /\ elapsed = [i \in Servers |-> 0]
  /\ sd = [i \in Servers |-> "idle"]
  /\ sdCount = [i \in Servers |-> 0]
  /\ sdJoins = [i \in Servers |-> 0]
  /\ ext = {}
  /\ client = [i \in Servers |-> NoDescriptor]
  /\ listed = [i \in Servers |-> NotListed]
  /\ last = [i \in Servers |-> NoExchange]
  /\ prev = [i \in Servers |-> NoExchange]
  /\ resolved = NotResolved
  /\ uvicorn_port = [i \in Servers |-> 0]
  /\ lock = "free"
  /\ acc = [c \in Contexts |-> NoAccess]
  /\ poll = [i \in Servers |-> NotPolling]
  /\ serving_thread = 0
  /\ od = [i \in Servers |-> "idle"]

\* threading.Thread.is_alive of the worker thread
Alive(i) == wpc[i] \in {"init", "run", "started", "check_exit", "main_loop", "closing"}

\* Ports some socket of the process is bound to.
HeldPorts ==
  {probe[j] : j \in {k \in Servers : probe[k] # 0}}
    \cup {uvicorn_port[j] : j \in {k \in Servers : sock[k] = "listening"}}
    \cup ext

\* A bind to port 0 is given any port.
FreePortsAny == Ports
\* A bind to port 0 is given a port no socket is bound to.
FreePorts == Ports \ HeldPorts

\* ------------------------------------------------ FakeLLMServer.__init__
\* parse_server_args and StartInfo()
Construct(i, configs) ==
  /\ cpc[i] = "new"
  /\ \E cfg \in configs, hub \in Hubs :
       LET r == parse_server_args(cfg.model_names, cfg.aliases, hub) IN
       /\ args' = [args EXCEPT ![i] = cfg]
       /\ calls' = [calls EXCEPT ![i] = r.calls]
       /\ IF r.err.kind # "ok"
          THEN /\ cpc' = [cpc EXCEPT ![i] = "raised"]
               /\ outcome' = [outcome EXCEPT ![i] = r.err]
               /\ UNCHANGED <<llms, has_start_info>>
          ELSE /\ cpc' = [cpc EXCEPT ![i] = "alloc"]
               /\ llms' = [llms EXCEPT ![i] = r.llms]
               /\ has_start_info' = [has_start_info EXCEPT ![i] = TRUE]
               /\ UNCHANGED outcome
  /\ UNCHANGED <<probe, port, server, started_event, thread, wpc, should_exit,
                 sock, inflight, elapsed, sd, sdCount, sdJoins>>
  /\ UNCHANGED ext
  /\ UNCHANGED <<api, uvicorn_port, ctx>>

\* _get_free_port: s.bind(("", 0))
ProbeBind(i) ==
  /\ cpc[i] = "alloc"
  /\ \E p \in FreePorts :
       probe' = [probe EXCEPT ![i] = p]
  /\ cpc' = [cpc EXCEPT ![i] = "probing"]
  /\ UNCHANGED <<outcome, llms, calls, has_start_info, port, server,
                 started_event, thread, wpc, should_exit, sock, inflight,
                 elapsed, sd, sdCount, sdJoins>>
  /\ UNCHANGED <<args, ext>>
  /\ UNCHANGED <<api, uvicorn_port, ctx>>

\* A _get_free_port whose result is not stored in StartInfo.
ProbeRelease_NotStored(i) ==
  /\ cpc[i] = "probing"
  /\ probe' = [probe EXCEPT ![i] = 0]
  /\ cpc' = [cpc EXCEPT ![i] = "spawn"]
  /\ UNCHANGED <<outcome, llms, calls, has_start_info, port, server,
                 started_event, thread, wpc, should_exit, sock, inflight,
                 elapsed, sd, sdCount, sdJoins>>
  /\ UNCHANGED <<args, ext>>
  /\ UNCHANGED <<api, uvicorn_port, ctx>>

\* _get_free_port: the socket is closed, and start_info.port is assigned
ProbeRelease(i) ==
  /\ cpc[i] = "probing"
  /\ port' = [port EXCEPT ![i] = probe[i]]
  /\ probe' = [probe EXCEPT ![i] = 0]
  /\ cpc' = [cpc EXCEPT ![i] = "spawn"]
  /\ UNCHANGED <<outcome, llms, calls, has_start_info, server, started_event,
                 thread, wpc, should_exit, sock, inflight, elapsed, sd,
                 sdCount, sdJoins>>
  /\ UNCHANGED <<args, ext>>
  /\ UNCHANGED <<api, uvicorn_port, ctx>>

\* self.thread = threading.Thread(...); self.thread.start(); start_time
Spawn(i) ==
  /\ cpc[i] = "spawn"
  /\ thread' = [thread EXCEPT ![i] = "Thread"]
  /\ wpc' = [wpc EXCEPT ![i] = "init"]
  /\ elapsed' = [elapsed EXCEPT ![i] = 0]
  /\ cpc' = [cpc EXCEPT ![i] = "wait_event"]
  /\ UNCHANGED <<outcome, llms, calls, has_start_info, probe, port, server,
                 started_event, should_exit, sock, inflight, sd, sdCount,
                 sdJoins>>
  /\ UNCHANGED <<args, ext>>
  /\ UNCHANGED <<api, uvicorn_port, ctx>>

\* ------------------------------------------------------ _wait_for_start
\* while not self.start_info.started_event.is_set()
WaitCheckEvent(i) ==
  /\ cpc[i] = "wait_event"
  /\ IF started_event[i]
     THEN /\ cpc' = [cpc EXCEPT ![i] = "returned"]
          /\ outcome' = [outcome EXCEPT ![i] = Returned]
          /\ elapsed' = [elapsed EXCEPT ![i] = 0]
     ELSE /\ cpc' = [cpc EXCEPT ![i] = "wait_alive"]
          /\ UNCHANGED <<outcome, elapsed>>
  /\ UNCHANGED <<llms, calls, has_start_info, probe, port, server,
                 started_event, thread, wpc, should_exit, sock, inflight,
                 sd, sdCount, sdJoins>>
  /\ UNCHANGED <<args, ext>>
  /\ UNCHANGED <<api, uvicorn_port, ctx>>

\* A liveness test that only looks at the thread reference.
ThreadGoneRefOnly(i) == thread[i] # "Thread"
\* self.thread is None or not self.thread.is_alive()
ThreadGone(i) == thread[i] # "Thread" \/ ~Alive(i)

\* if self.thread is None or not self.thread.is_alive(): raise
WaitCheckAlive(i) ==
  /\ cpc[i] = "wait_alive"
  /\ IF ThreadGone(i)
     THEN /\ cpc' = [cpc EXCEPT ![i] = "raised"]
          /\ outcome' = [outcome EXCEPT ![i] = WorkerDied]
          /\ elapsed' = [elapsed EXCEPT ![i] = 0]
     ELSE /\ cpc' = [cpc EXCEPT ![i] = "wait_time"]
          /\ UNCHANGED <<outcome, elapsed>>
  /\ UNCHANGED <<llms, calls, has_start_info, probe, port, server,
                 started_event, thread, wpc, should_exit, sock, inflight,
                 sd, sdCount, sdJoins>>
  /\ UNCHANGED <<args, ext>>
  /\ UNCHANGED <<api, uvicorn_port, ctx>>

\* A ceiling test that is off by one poll interval.
TimedOutLate(i) == elapsed[i] > Timeout + 1
\* time.time() - start_time > timeout
TimedOut(i) == elapsed[i] > Timeout

\* if time.time() - start_time > timeout: self.shutdown() ...
\* else time.sleep(0.1)
WaitCheckTime(i) ==
  /\ cpc[i] = "wait_time"
  /\ IF TimedOut(i)
     THEN /\ cpc' = [cpc EXCEPT ![i] = "timeout_shutdown"]
          /\ sd' = [sd EXCEPT ![i] = "flag"]
          /\ sdJoins' = [sdJoins EXCEPT ![i] = 0]
          /\ elapsed' = [elapsed EXCEPT ![i] = 0]
     ELSE /\ cpc' = [cpc EXCEPT ![i] = "wait_event"]
          /\ elapsed' = [elapsed EXCEPT ![i] = @ + 1]
          /\ UNCHANGED <<sd, sdJoins>>
  /\ UNCHANGED <<outcome, llms, calls, has_start_info, probe, port, server,
                 started_event, thread, wpc, should_exit, sock, inflight,
                 sdCount>>
  /\ UNCHANGED <<args, ext>>
  /\ UNCHANGED <<api, uvicorn_port, ctx>>

\* ------------------------------------------------------------- shutdown
\* server.shutdown() by the caller, or __del__ once the instance is dropped
CallShutdown(i) ==
  /\ cpc[i] \in {"returned", "raised"}
  /\ sd[i] = "idle"
  /\ sdCount[i] < MaxShutdowns
  /\ sd' = [sd EXCEPT ![i] = "flag"]
  /\ sdJoins' = [sdJoins EXCEPT ![i] = 0]
  /\ UNCHANGED <<cpc, outcome, llms, calls, has_start_info, probe, port,
                 server, started_event, thread, wpc, should_exit, sock,
                 inflight, elapsed, sdCount>>
  /\ UNCHANGED <<args, ext>>
  /\ UNCHANGED <<api, uvicorn_port, ctx>>

\* An exit flag set on every server handle registered in the process.
ExitTargetsGlobal(i) == {j \in Servers : server[j]}
\* An exit flag that shutdown sets whether or not the worker has registered
\* its server.
ExitTargets_Unregistered(i) == IF has_start_info[i] THEN {i} ELSE {}

\* The server handles shutdown sets should_exit on: self.start_info.server
ExitTargets(i) == IF has_start_info[i] /\ server[i] THEN {i} ELSE {}

\* if hasattr(self, "start_info") and ... : server.should_exit = True
SdFlag(i) ==
  /\ sd[i] = "flag"
  /\ should_exit' = [j \in Servers |->
                       IF j \in ExitTargets(i) THEN TRUE ELSE should_exit[j]]
  /\ sd' = [sd EXCEPT ![i] = "check"]
  /\ UNCHANGED <<cpc, outcome, llms, calls, has_start_info, probe, port,
                 server, started_event, thread, wpc, sock, inflight, elapsed,
                 sdCount, sdJoins>>
  /\ UNCHANGED <<args, ext>>
  /\ UNCHANGED <<api, uvicorn_port, ctx>>

\* A shutdown that leaves self.thread as it was.
ThreadKept(i) == thread[i]
\* self.thread = None
ThreadCleared(i) == "None"

\* The end of shutdown(): self.thread = None, and the return to the caller,
\* which in _wait_for_start raises the timeout error.
SdFinish(i) ==
  /\ thread' = [thread EXCEPT ![i] = ThreadCleared(i)]
  /\ sd' = [sd EXCEPT ![i] = "idle"]
  /\ sdCount' = [sdCount EXCEPT ![i] = @ + 1]
  /\ IF cpc[i] = "timeout_shutdown"
     THEN /\ cpc' = [cpc EXCEPT ![i] = "raised"]
          /\ outcome' = [outcome EXCEPT ![i] = StartupTimeout]
     ELSE UNCHANGED <<cpc, outcome>>

\* A test without the hasattr guard: AttributeError when __init__ raised
\* before self.thread was assigned.
ThreadTest_NoHasattr(i) ==
  IF thread[i] = "unset" THEN "raise"
  ELSE IF thread[i] = "Thread" /\ Alive(i) THEN "join"
  ELSE "skip"
\* hasattr(self, "thread") and self.thread and self.thread.is_alive()
ThreadTest(i) ==
  IF thread[i] = "unset" THEN "skip"
  ELSE IF thread[i] = "Thread" /\ Alive(i) THEN "join"
  ELSE "skip"

\* if hasattr(self, "thread") and self.thread and self.thread.is_alive()
SdJoinCheck(i) ==
  /\ sd[i] = "check"
  /\ IF ThreadTest(i) = "join"
     THEN /\ sd' = [sd EXCEPT ![i] = "joining"]
          /\ sdJoins' = [sdJoins EXCEPT ![i] = @ + 1]
          /\ UNCHANGED <<cpc, outcome, thread, sdCount>>
     ELSE IF ThreadTest(i) = "raise"
          THEN /\ sd' = [sd EXCEPT ![i] = "raised"]
               /\ UNCHANGED <<cpc, outcome, thread, sdCount, sdJoins>>
          ELSE /\ SdFinish(i)
               /\ UNCHANGED sdJoins
  /\ UNCHANGED <<llms, calls, has_start_info, probe, port, server,
                 started_event, wpc, should_exit, sock, inflight, elapsed>>
  /\ UNCHANGED <<args, ext>>
  /\ UNCHANGED <<api, uvicorn_port, ctx>>

\* A join without a timeout returns only when the thread has ended.
JoinReturnsUnbounded(i) == ~Alive(i)
\* self.thread.join(timeout=5) returns when the thread has ended or the
\* five seconds have passed, whichever is first.
JoinReturns(i) == TRUE

\* self.thread.join(timeout=5) returns; self.thread = None
SdJoinReturn(i) ==
  /\ sd[i] = "joining"
  /\ JoinReturns(i)
  /\ SdFinish(i)
  /\ UNCHANGED <<llms, calls, has_start_info, probe, port, server,
                 started_event, wpc, should_exit, sock, inflight, elapsed,
                 sdJoins>>
  /\ UNCHANGED <<args, ext>>
  /\ UNCHANGED <<api, uvicorn_port, ctx>>

\* --------------------------------------------------------- ServingThread
\* A uvicorn.Config left without the allocated port.
ConfiguredPortUnset(i) == 0
\* uvicorn.Config(app=self.app, host="127.0.0.1", port=start_info.port)
ConfiguredPort(i) == port[i]

\* A worker that builds its server and does not register it in StartInfo.
WorkerRegister_Unregistered(i) ==
  /\ wpc[i] = "init"
  /\ should_exit' = [should_exit EXCEPT ![i] = FALSE]
  /\ wpc' = [wpc EXCEPT ![i] = "run"]
  /\ uvicorn_port' = [uvicorn_port EXCEPT ![i] = ConfiguredPort(i)]
  /\ UNCHANGED <<cpc, outcome, llms, calls, has_start_info, probe, port,
                 server, started_event, thread, sock, inflight, elapsed, sd,
                 sdCount, sdJoins>>
  /\ UNCHANGED <<args, ext>>
  /\ UNCHANGED <<api, ctx>>

\* create_server_app, uvicorn.Config, _NotifyServer(...) and
\* start_info.server = self.server
WorkerRegister(i) ==
  /\ wpc[i] = "init"
  /\ should_exit' = [should_exit EXCEPT ![i] = FALSE]
  /\ server' = [server EXCEPT ![i] = TRUE]
  /\ wpc' = [wpc EXCEPT ![i] = "run"]
  /\ uvicorn_port' = [uvicorn_port EXCEPT ![i] = ConfiguredPort(i)]
  /\ UNCHANGED <<cpc, outcome, llms, calls, has_start_info, probe, port,
                 started_event, thread, sock, inflight, elapsed, sd, sdCount,
                 sdJoins>>
  /\ UNCHANGED <<args, ext>>
  /\ UNCHANGED <<api, ctx>>

\* _lifespan: "llms configuration missing" when the configuration is empty
LifespanFails(i) == DOMAIN llms[i] = {}

\* self.server.run() up to the return of super().startup(sockets): the
\* lifespan startup, then the bind of the listening socket.  A failed
\* lifespan sets should_exit and returns before the bind; a failed bind
\* ends the thread (sys.exit).
WorkerStartup(i) ==
  /\ wpc[i] = "run"
  /\ IF LifespanFails(i)
     THEN /\ should_exit' = [should_exit EXCEPT ![i] = TRUE]
          /\ wpc' = [wpc EXCEPT ![i] = "started"]
          /\ UNCHANGED sock
     ELSE IF uvicorn_port[i] \in HeldPorts
          THEN /\ wpc' = [wpc EXCEPT ![i] = "died"]
               /\ UNCHANGED <<should_exit, sock>>
          ELSE /\ sock' = [sock EXCEPT ![i] = "listening"]
               /\ wpc' = [wpc EXCEPT ![i] = "started"]
               /\ UNCHANGED should_exit
  /\ UNCHANGED <<cpc, outcome, llms, calls, has_start_info, probe, port,
                 server, started_event, thread, inflight, elapsed, sd,
                 sdCount, sdJoins>>
  /\ UNCHANGED <<args, ext>>
  /\ UNCHANGED <<api, uvicorn_port, ctx>>

\* _NotifyServer.startup: self._start_info.started_event.set()
WorkerSetEvent(i) ==
  /\ wpc[i] = "started"
  /\ started_event' = [started_event EXCEPT ![i] = TRUE]
  /\ wpc' = [wpc EXCEPT ![i] = "check_exit"]
  /\ UNCHANGED <<cpc, outcome, llms, calls, has_start_info, probe, port,
                 server, thread, should_exit, sock, inflight, elapsed, sd,
                 sdCount, sdJoins>>
  /\ UNCHANGED <<args, ext>>
  /\ UNCHANGED <<api, uvicorn_port, ctx>>

\* uvicorn's serve after startup: return when should_exit is set, else
\* enter the main loop
WorkerAfterStartup(i) ==
  /\ wpc[i] = "check_exit"
  /\ IF should_exit[i]
     THEN /\ wpc' = [wpc EXCEPT ![i] = "exited"]
          /\ sock' = [sock EXCEPT ![i] = IF @ = "listening" THEN "closed" ELSE @]
     ELSE /\ wpc' = [wpc EXCEPT ![i] = "main_loop"]
          /\ UNCHANGED sock
  /\ UNCHANGED <<cpc, outcome, llms, calls, has_start_info, probe, port,
                 server, started_event, thread, should_exit, inflight,
                 elapsed, sd, sdCount, sdJoins>>
  /\ UNCHANGED <<args, ext>>
  /\ UNCHANGED <<api, uvicorn_port, ctx>>

\* uvicorn's main loop sees should_exit and closes the listening socket
WorkerTick(i) ==
  /\ wpc[i] = "main_loop"
  /\ should_exit[i]
  /\ wpc' = [wpc EXCEPT ![i] = "closing"]
  /\ sock' = [sock EXCEPT ![i] = "closed"]
  /\ UNCHANGED <<cpc, outcome, llms, calls, has_start_info, probe, port,
                 server, started_event, thread, should_exit, inflight,
                 elapsed, sd, sdCount, sdJoins>>
  /\ UNCHANGED <<args, ext>>
  /\ UNCHANGED <<api, uvicorn_port, ctx>>

\* A lifespan exit that empties the mapping: llms.clear()
LifespanExit_Clear(i) == EmptyDict
\* _lifespan after the yield: "del app.state.llms" removes the app's
\* attribute; the mapping it named keeps its keys.
LifespanExit(i) == llms[i]

\* uvicorn's shutdown has waited for the running handlers and run the
\* lifespan's exit; the thread ends
WorkerExit(i) ==
  /\ wpc[i] = "closing"
  /\ inflight[i] = 0
  /\ wpc' = [wpc EXCEPT ![i] = "exited"]
  /\ llms' = [llms EXCEPT ![i] = LifespanExit(i)]
  /\ UNCHANGED <<cpc, outcome, calls, has_start_info, probe, port,
                 server, started_event, thread, should_exit, sock, inflight,
                 elapsed, sd, sdCount, sdJoins>>
  /\ UNCHANGED <<args, ext>>
  /\ UNCHANGED <<api, uvicorn_port, ctx>>

\* a request enters create_chat_completion
RequestStart(i) ==
  /\ wpc[i] = "main_loop"
  /\ sock[i] = "listening"
  /\ inflight[i] < MaxInflight
  /\ inflight' = [inflight EXCEPT ![i] = @ + 1]
  /\ UNCHANGED <<cpc, outcome, llms, calls, has_start_info, probe, port,
                 server, started_event, thread, wpc, should_exit, sock,
                 elapsed, sd, sdCount, sdJoins>>
  /\ UNCHANGED <<args, ext>>
  /\ UNCHANGED <<api, uvicorn_port, ctx>>

\* create_chat_completion returns or raises
RequestFinish(i) ==
  /\ inflight[i] > 0
  /\ inflight' = [inflight EXCEPT ![i] = @ - 1]
  /\ UNCHANGED <<cpc, outcome, llms, calls, has_start_info, probe, port,
                 server, started_event, thread, wpc, should_exit, sock,
                 elapsed, sd, sdCount, sdJoins>>
  /\ UNCHANGED <<args, ext>>
  /\ UNCHANGED <<api, uvicorn_port, ctx>>

\* ------------------------------------------------- the resolver, directly
\* The listings a repository can have: up to MaxListing of these files in
\* any order, or a listing that fails.
MaxListing == 3
Files == {"gemma-3-270m-it-Q4_K_M.gguf", "gemma-3-270m-it-Q8_0.gguf",
          "tiny-f16.gguf", "tiny-q4_k_m.gguf", "q4_k_m-notes.md", "README.md"}
Listings ==
  {Listing(TRUE, files) : files \in Tuples(Files, MaxListing)}
    \cup {Listing(FALSE, << >>)}
\* The identifiers given to from_name: the catalog keys, repository
\* identifiers, and names that are neither.
ResolveNames ==
  DOMAIN SUPPORTED_MODEL_ALIASES \cup SlashNames \cup {"nonesuch", ""}
HubOf(listing) == [listing |-> [r \in SlashNames |-> listing], down |-> {}]

\* ModelSpec.from_name(name), called on its own
ResolveName ==
  /\ resolved = NotResolved
  /\ \E name \in ResolveNames, listing \in Listings :
       resolved' = [op |-> "from_name", name |-> name, listing |-> listing,
                    out |-> from_name(name, HubOf(listing))]
  /\ UNCHANGED <<args, cpc, outcome, llms, calls, has_start_info, probe,
                 port, server, started_event, thread, wpc, should_exit, sock,
                 inflight, elapsed, sd, sdCount, sdJoins, ext>>
  /\ UNCHANGED <<client, listed, last, prev, uvicorn_port, ctx>>

\* ModelSpec.from_repo_id(repo_id), called on its own
ResolveRepo ==
  /\ resolved = NotResolved
  /\ \E repo \in SlashNames, listing \in Listings :
       resolved' = [op |-> "from_repo_id", name |-> repo, listing |-> listing,
                    out |-> from_repo_id(repo, HubOf(listing))]
  /\ UNCHANGED <<args, cpc, outcome, llms, calls, has_start_info, probe,
                 port, server, started_event, thread, wpc, should_exit, sock,
                 inflight, elapsed, sd, sdCount, sdJoins, ext>>
  /\ UNCHANGED <<client, listed, last, prev, uvicorn_port, ctx>>

\* --------------------------------------------------- openai_client_args
\* FakeLLMServer.openai_client_args: the base URL is the f-string
\* "http://127.0.0.1:{self.start_info.port}/v1", kept as its three parts.
openai_client_args(i) ==
  [base_url |-> <<"http://127.0.0.1:", port[i], "/v1">>, api_key |-> "fake-key"]

\* The caller asks the constructed instance for the connection parameters;
\* it notes whether it had called shutdown() before.
ClientArgs(i) ==
  /\ cpc[i] = "returned"
  /\ sd[i] = "idle"
  /\ client' = [client EXCEPT ![i] = [ret |-> openai_client_args(i),
                                      stopped |-> sdCount[i] > 0]]
  /\ UNCHANGED <<args, cpc, outcome, llms, calls, has_start_info, probe,
                 port, server, started_event, thread, wpc, should_exit, sock,
                 inflight, elapsed, sd, sdCount, sdJoins, ext>>
  /\ UNCHANGED <<listed, last, prev, resolved, uvicorn_port, ctx>>

\* ------------------------------------------------------ the HTTP handlers
\* An optional field of a JSON request body: << >> when the body leaves it
\* out, <<v>> when it gives v.
Absent == << >>
Given(v) == <<v>>
OrDefault(opt, d) == IF opt = Absent THEN d ELSE opt[1]

\* _ChatCompletionRequest with the defaults of server.py (temperature 0.8).
ParseRequest_ServerPy(raw) ==
  [model |-> raw.model,
   messages |-> raw.messages,
   stream |-> OrDefault(raw.stream, FALSE),
   max_tokens |-> OrDefault(raw.max_tokens, -1),
   temperature |-> OrDefault(raw.temperature, 80),
   top_p |-> OrDefault(raw.top_p, 95)]
\* _ChatCompletionRequest: the validated request, with the defaults of the
\* fields the body left out.  temperature and top_p are in hundredths,
\* max_tokens -1 stands for None.
ParseRequest(raw) ==
  [model |-> raw.model,
   messages |-> raw.messages,
   stream |-> OrDefault(raw.stream, FALSE),
   max_tokens |-> OrDefault(raw.max_tokens, -1),
   temperature |-> OrDefault(raw.temperature, 0),
   top_p |-> OrDefault(raw.top_p, 95)]

\* llms.get(request.model): the handle, 0 for None
Lookup(d, k) == IF k \in DOMAIN d THEN d[k] ELSE 0

\* The inference engine behind a handle (Llama.create_chat_completion), a
\* deterministic function of the handle, the messages and the sampling
\* parameters at temperature 0, and of the sampler's random draws as well
\* above it.
Seeds == {1, 2}
Generate(call, seed) ==
  [call |-> call, sample |-> IF call.temperature = 0 THEN 0 ELSE seed]
\* What makes the engine fail: messages its chat template rejects when the
\* prompt is formatted, inside the call; a prompt longer than the context
\* window, when tokens are generated.
NoFault == [at |-> "never", msg |-> ""]
EngineFault(messages) ==
  CASE messages = "malformed" ->
         [at |-> "call", msg |-> "chat template error"]
    [] messages = "overlong" ->
         [at |-> "generation", msg |-> "Requested tokens exceed context window"]
    [] OTHER -> NoFault
\* With stream=True the engine returns a lazy iterator of chunks: tokens
\* are generated, and generation fails, when the iterator is consumed.
RaisedInCall(call) ==
  \/ EngineFault(call.messages).at = "call"
  \/ EngineFault(call.messages).at = "generation" /\ ~call.stream

NoCall == [handle |-> 0]
Exchange(raw, status, detail, call, body) ==
  [request |-> raw, status |-> status, detail |-> detail, call |-> call,
   body |-> body]

\* A handler that sends a request for an unknown model to the first
\* configured handle.
create_chat_completion_Fallback(i, raw, seed) ==
  LET request == ParseRequest(raw)
      call == [handle |-> IF Lookup(llms[i], request.model) # 0
                          THEN Lookup(llms[i], request.model) ELSE 1,
               messages |-> request.messages,
               max_tokens |-> request.max_tokens,
               temperature |-> request.temperature,
               top_p |-> request.top_p,
               stream |-> request.stream]
  IN IF RaisedInCall(call)
     THEN Exchange(raw, 500, <<EngineFault(call.messages).msg>>, call, << >>)
     ELSE IF EngineFault(call.messages) # NoFault
          THEN Exchange(raw, 500, <<"Internal Server Error">>, call, << >>)
          ELSE Exchange(raw, 200, << >>, call, <<Generate(call, seed)>>)

\* POST /v1/chat/completions: create_chat_completion, and the framework's
\* serialisation of what it returns.  An exception the handler raises as
\* HTTPException becomes a response with its status and detail; one raised
\* while the framework consumes a returned iterator is not the handler's,
\* and becomes the framework's own 500 response.
create_chat_completion(i, raw, seed) ==
  LET request == ParseRequest(raw)
      llm == Lookup(llms[i], request.model)
      call == [handle |-> llm,
               messages |-> request.messages,
               max_tokens |-> request.max_tokens,
               temperature |-> request.temperature,
               top_p |-> request.top_p,
               stream |-> request.stream]
  IN IF llm = 0
     THEN Exchange(raw, 404, <<"Model '", request.model, "' not found">>,
                   NoCall, << >>)
     ELSE IF RaisedInCall(call)
          THEN Exchange(raw, 500, <<EngineFault(call.messages).msg>>, call, << >>)
          ELSE IF EngineFault(call.messages) # NoFault
               THEN Exchange(raw, 500, <<"Internal Server Error">>, call, << >>)
               ELSE Exchange(raw, 200, << >>, call, <<Generate(call, seed)>>)

RECURSIVE ModelEntries(_)
\* The list comprehension of list_models over the keys of llms.
ModelEntries(keys) ==
  IF keys = {} THEN << >>
  ELSE LET model_id == CHOOSE k \in keys : TRUE
       IN <<[id |-> model_id, object |-> "model", created |-> 1677610602,
             owned_by |-> "fake-llm-server"]>>
            \o ModelEntries(keys \ {model_id})

\* A model list of the configured identifiers alone.
list_models_NamesOnly(i) ==
  [status |-> 200, object |-> "list",
   data |-> ModelEntries(SeqToSet(args[i].model_names.names))]
\* GET /v1/models: list_models
list_models(i) ==
  [status |-> 200, object |-> "list", data |-> ModelEntries(DOMAIN llms[i])]

\* The request bodies clients send: for messages the engine answers, the
\* sampling parameters given or left out; for messages it fails on, and
\* for a model that is not configured, the defaults.
Raw(model, messages, stream, max_tokens, temperature, top_p) ==
  [model |-> model, messages |-> messages, stream |-> stream,
   max_tokens |-> max_tokens, temperature |-> temperature, top_p |-> top_p]
Requests ==
  {Raw(m, "hello", st, o[1], t, o[2]) :
     m \in {"gemma-3-270m", "fast"}, st \in {Absent, Given(TRUE)},
     t \in {Absent, Given(0), Given(90)},
     o \in {<<Absent, Absent>>, <<Given(30), Given(50)>>}}
  \cup {Raw("gemma-3-270m", msg, st, Absent, Absent, Absent) :
          msg \in {"malformed", "overlong"}, st \in {Absent, Given(TRUE)}}
  \cup {Raw("nonesuch", "hello", st, Absent, Absent, Absent) :
          st \in {Absent, Given(TRUE)}}

\* The worker's server accepts connections and runs handlers.
Serving(i) == wpc[i] = "main_loop" /\ sock[i] = "listening"
\* The Running state of the lifecycle, in which clients issue requests: the
\* constructor has returned and shutdown() was not called yet.
Running(i) == cpc[i] = "returned" /\ sd[i] = "idle" /\ sdCount[i] = 0

\* A client's GET /v1/models is answered.
ListModels(i) ==
  /\ Running(i)
  /\ Serving(i)
  /\ listed' = [listed EXCEPT ![i] = list_models(i)]
  /\ UNCHANGED <<args, cpc, outcome, llms, calls, has_start_info, probe,
                 port, server, started_event, thread, wpc, should_exit, sock,
                 inflight, elapsed, sd, sdCount, sdJoins, ext>>
  /\ UNCHANGED <<client, last, prev, resolved, uvicorn_port, ctx>>

\* A client's POST /v1/chat/completions is answered.
CreateChatCompletion(i) ==
  /\ Running(i)
  /\ Serving(i)
  /\ \E raw \in Requests, seed \in Seeds :
       last' = [last EXCEPT ![i] = create_chat_completion(i, raw, seed)]
  /\ prev' = [prev EXCEPT ![i] = last[i]]
  /\ UNCHANGED <<args, cpc, outcome, llms, calls, has_start_info, probe,
                 port, server, started_event, thread, wpc, should_exit, sock,
                 inflight, elapsed, sd, sdCount, sdJoins, ext>>
  /\ UNCHANGED <<client, listed, resolved, uvicorn_port, ctx>>

\* ------------------------------------------------- DownloadedModel.load
MaxCores == 2
\* What psutil.cpu_count(logical=False) and os.process_cpu_count() return:
\* None (<< >>) or a count.
CoreCounts == {<< >>} \cup {<<n>> : n \in 0..MaxCores}
\* Python's truth value of None or an int, and "a or b".
Truthy(opt) == opt # << >> /\ opt[1] # 0
Or(a, b) == IF Truthy(a) THEN a ELSE b
\* dict.update
Update(d, kw) ==
  [k \in DOMAIN d \cup DOMAIN kw |-> IF k \in DOMAIN kw THEN kw[k] ELSE d[k]]

\* A thread count that prefers the process count to the physical one.
n_threads_ProcessFirst(physical, process) == Or(process, Or(physical, <<1>>))[1]
\* psutil.cpu_count(logical=False) or os.process_cpu_count() or 1
n_threads(physical, process) == Or(physical, Or(process, <<1>>))[1]

\* load(**kwargs): the keyword arguments Llama is constructed with
load(model, physical, process, kwargs) ==
  LET llama_kwargs == [model_path |-> model.model_path,
                       n_ctx |-> 2048,
                       n_threads |-> n_threads(physical, process),
                       verbose |-> FALSE]
      with_format == IF model.model_name = "smollm3"
                     THEN Put(llama_kwargs, "chat_format", "chatml")
                     ELSE llama_kwargs
  IN Update(with_format, kwargs)

\* The models load is called on, and the keyword arguments it is given:
\* none, a thread count, a context size.
DownloadedModels ==
  {[model_name |-> "smollm3", model_path |-> <<"acme/smol", "smol.gguf">>],
   [model_name |-> "test-model", model_path |-> <<"acme/tiny", "tiny-f16.gguf">>]}
LoadKwargs ==
  {EmptyDict} \cup {[n_threads |-> n] : n \in 0..MaxCores + 1} \cup {[n_ctx |-> 512]}

\* DownloadedModel.load(**kwargs), called on its own
LoadModel ==
  /\ resolved = NotResolved
  /\ \E model \in DownloadedModels, physical \in CoreCounts,
        process \in CoreCounts, kwargs \in LoadKwargs :
       resolved' = [op |-> "load", name |-> model.model_name,
                    physical |-> physical, process |-> process,
                    kwargs |-> kwargs,
                    out |-> load(model, physical, process, kwargs)]
  /\ UNCHANGED <<args, cpc, outcome, llms, calls, has_start_info, probe,
                 port, server, started_event, thread, wpc, should_exit, sock,
                 inflight, elapsed, sd, sdCount, sdJoins, ext>>
  /\ UNCHANGED <<client, listed, last, prev, uvicorn_port, ctx>>

\* ------------------------------------------- the properties of StartInfo
\* port and server of the StartInfo of instance 1, called from the two
\* contexts that share it.  A call is at "acquire" before "with self._lock",
\* at "body" inside it, at "exit" or "raise" when the body has returned or
\* raised and __exit__ is due.
Accessors == {"get_port", "set_port", "get_server", "set_server"}
InsideLock == {"body", "exit", "raise"}
PortNotSet == "RuntimeError:Port not set"

\* A context calls one of the four properties.
AccCall(c) ==
  /\ acc[c].pc = "idle"
  /\ \E op \in Accessors, value \in Ports :
       acc' = [acc EXCEPT ![c] = [op |-> op, pc |-> "acquire",
                                  arg |-> IF op = "set_port" THEN value ELSE 0,
                                  ret |-> NoResult]]
  /\ UNCHANGED <<args, cpc, outcome, llms, calls, has_start_info, probe,
                 port, server, started_event, thread, wpc, should_exit, sock,
                 inflight, elapsed, sd, sdCount, sdJoins, ext>>
  /\ UNCHANGED <<api, uvicorn_port, lock, poll, serving_thread, od>>

\* with self._lock: __enter__ returns once the lock is free
AccAcquire(c) ==
  /\ acc[c].pc = "acquire"
  /\ lock = "free"
  /\ lock' = c
  /\ acc' = [acc EXCEPT ![c].pc = "body"]
  /\ UNCHANGED <<args, cpc, outcome, llms, calls, has_start_info, probe,
                 port, server, started_event, thread, wpc, should_exit, sock,
                 inflight, elapsed, sd, sdCount, sdJoins, ext>>
  /\ UNCHANGED <<api, uvicorn_port, poll, serving_thread, od>>

\* the body of the property: the read or the write of the field
AccBody(c) ==
  /\ acc[c].pc = "body"
  /\ \/ /\ acc[c].op = "get_port"
        /\ acc' = [acc EXCEPT ![c].pc = IF port[1] = 0 THEN "raise" ELSE "exit",
                              ![c].ret = IF port[1] = 0
                                         THEN [NoResult EXCEPT !.err = PortNotSet]
                                         ELSE [NoResult EXCEPT !.port = port[1]]]
        /\ UNCHANGED <<port, server>>
     \/ /\ acc[c].op = "set_port"
        /\ port' = [port EXCEPT ![1] = acc[c].arg]
        /\ acc' = [acc EXCEPT ![c].pc = "exit"]
        /\ UNCHANGED server
     \/ /\ acc[c].op = "get_server"
        /\ acc' = [acc EXCEPT ![c].pc = "exit",
                              ![c].ret = [NoResult EXCEPT !.server = server[1]]]
        /\ UNCHANGED <<port, server>>
     \/ /\ acc[c].op = "set_server"
        /\ server' = [server EXCEPT ![1] = TRUE]
        /\ acc' = [acc EXCEPT ![c].pc = "exit"]
        /\ UNCHANGED port
  /\ UNCHANGED <<args, cpc, outcome, llms, calls, has_start_info, probe,
                 started_event, thread, wpc, should_exit, sock,
                 inflight, elapsed, sd, sdCount, sdJoins, ext>>
  /\ UNCHANGED <<api, uvicorn_port, lock, poll, serving_thread, od>>

\* A lock released by hand after the body, which a raise skips.
WithReleases_ReturnOnly(pc) == pc = "exit"
\* The with statement's __exit__ runs when the body returns and when it
\* raises.
WithReleases(pc) == pc \in {"exit", "raise"}

\* the with statement ends and the call returns or raises
AccRelease(c) ==
  /\ acc[c].pc \in {"exit", "raise"}
  /\ lock' = IF WithReleases(acc[c].pc) THEN "free" ELSE lock
  /\ acc' = [acc EXCEPT ![c].pc = "idle"]
  /\ UNCHANGED <<args, cpc, outcome, llms, calls, has_start_info, probe,
                 port, server, started_event, thread, wpc, should_exit, sock,
                 inflight, elapsed, sd, sdCount, sdJoins, ext>>
  /\ UNCHANGED <<api, uvicorn_port, poll, serving_thread, od>>

AccStep(c) == AccCall(c) \/ AccAcquire(c) \/ AccBody(c) \/ AccRelease(c)

\* ------------------------------------- main.py: _wait_for_server
\* The polling wait of the alternate implementation, watching the worker of
\* instance i from the moment the thread is started.  poll.n is
\* time.time() - start_time in poll rounds.
PollStart(i) ==
  /\ poll[i].pc = "idle"
  /\ wpc[i] = "init"
  /\ poll' = [poll EXCEPT ![i] = [pc |-> "loop", n |-> 0]]
  /\ UNCHANGED <<args, cpc, outcome, llms, calls, has_start_info, probe,
                 port, server, started_event, thread, wpc, should_exit, sock,
                 inflight, elapsed, sd, sdCount, sdJoins, ext>>
  /\ UNCHANGED <<api, uvicorn_port, lock, acc, serving_thread, od>>

\* main.py, shutdown(): serving_thread = getattr(app.state,
\* "serving_thread", None); if serving_thread: serving_thread.stop() - the
\* instances whose server gets should_exit set
StopTargets == IF serving_thread # 0 THEN {serving_thread} ELSE {}

\* while time.time() - start_time < timeout; after the loop self.shutdown()
\* (stop, del app.state.serving_thread, join, self.thread = None) and the
\* raise of "Server timed out waiting for startup"
PollLoop(i) ==
  /\ poll[i].pc = "loop"
  /\ IF poll[i].n < Timeout
     THEN /\ poll' = [poll EXCEPT ![i].pc = "alive"]
          /\ UNCHANGED <<should_exit, serving_thread, thread>>
     ELSE /\ poll' = [poll EXCEPT ![i].pc = "timeout"]
          /\ should_exit' = [j \in Servers |->
                               IF j \in StopTargets THEN TRUE ELSE should_exit[j]]
          /\ serving_thread' = 0
          /\ thread' = [thread EXCEPT ![i] = "None"]
  /\ UNCHANGED <<args, cpc, outcome, llms, calls, has_start_info, probe,
                 port, server, started_event, wpc, sock,
                 inflight, elapsed, sd, sdCount, sdJoins, ext>>
  /\ UNCHANGED <<api, uvicorn_port, lock, acc, od>>

\* if self.thread is None or not self.thread.is_alive(): raise
\* "Server thread died unexpectedly"
PollAlive(i) ==
  /\ poll[i].pc = "alive"
  /\ poll' = [poll EXCEPT ![i].pc = IF Alive(i) THEN "get" ELSE "died"]
  /\ UNCHANGED <<args, cpc, outcome, llms, calls, has_start_info, probe,
                 port, server, started_event, thread, wpc, should_exit, sock,
                 inflight, elapsed, sd, sdCount, sdJoins, ext>>
  /\ UNCHANGED <<api, uvicorn_port, lock, acc, serving_thread, od>>

\* httpx.get(url, timeout=1): return on a 200 from /v1/models, which the
\* worker gives while it serves; otherwise time.sleep(1) and the next round
PollGet(i) ==
  /\ poll[i].pc = "get"
  /\ poll' = [poll EXCEPT ![i] =
                IF Serving(i)
                THEN [pc |-> "returned", n |-> @.n]
                ELSE [pc |-> "loop", n |-> @.n + 1]]
  /\ UNCHANGED <<args, cpc, outcome, llms, calls, has_start_info, probe,
                 port, server, started_event, thread, wpc, should_exit, sock,
                 inflight, elapsed, sd, sdCount, sdJoins, ext>>
  /\ UNCHANGED <<api, uvicorn_port, lock, acc, serving_thread, od>>

PollStep(i) == PollStart(i) \/ PollLoop(i) \/ PollAlive(i) \/ PollGet(i)

\* --------------------------------------- main.py: FakeLLMServer, ServingThread
\* __init__: _get_free_port(), RemoteModelSpec.from_name(...).download(),
\* which may raise; then self.thread = None, _start_server() up to
\* self.thread.start(), and the entry into _wait_for_server
MainConstruct(i) ==
  /\ cpc[i] = "new"
  /\ \E p \in FreePorts, fetched \in BOOLEAN :
       /\ port' = [port EXCEPT ![i] = p]
       /\ IF fetched
          THEN /\ cpc' = [cpc EXCEPT ![i] = "wait_server"]
               /\ thread' = [thread EXCEPT ![i] = "Thread"]
               /\ wpc' = [wpc EXCEPT ![i] = "init"]
               /\ poll' = [poll EXCEPT ![i] = [pc |-> "loop", n |-> 0]]
               /\ UNCHANGED outcome
          ELSE /\ cpc' = [cpc EXCEPT ![i] = "raised"]
               /\ outcome' = [outcome EXCEPT ![i] =
                                Error("RuntimeError:Failed to download model from", "")]
               /\ UNCHANGED <<thread, wpc, poll>>
  /\ UNCHANGED <<args, llms, calls, has_start_info, probe, server,
                 started_event, should_exit, sock, inflight, elapsed, sd,
                 sdCount, sdJoins, ext>>
  /\ UNCHANGED <<api, uvicorn_port, lock, acc, serving_thread, od>>

\* _wait_for_server has returned or raised, and so does __init__
MainWaitDone(i) ==
  /\ cpc[i] = "wait_server"
  /\ poll[i].pc \in {"returned", "died", "timeout"}
  /\ cpc' = [cpc EXCEPT ![i] = IF poll[i].pc = "returned" THEN "returned"
                               ELSE "raised"]
  /\ outcome' = [outcome EXCEPT ![i] =
                   IF poll[i].pc = "returned" THEN Returned
                   ELSE IF poll[i].pc = "died" THEN WorkerDied
                   ELSE StartupTimeout]
  /\ UNCHANGED <<args, llms, calls, has_start_info, probe, port, server,
                 started_event, thread, wpc, should_exit, sock, inflight,
                 elapsed, sd, sdCount, sdJoins, ext>>
  /\ UNCHANGED <<api, uvicorn_port, ctx>>

\* ServingThread.__init__ on the worker thread: app.state.serving_thread =
\* self, uvicorn.Config(port=config.port), self.server = uvicorn.Server(...)
MainWorkerInit(i) ==
  /\ wpc[i] = "init"
  /\ serving_thread' = i
  /\ server' = [server EXCEPT ![i] = TRUE]
  /\ should_exit' = [should_exit EXCEPT ![i] = FALSE]
  /\ uvicorn_port' = [uvicorn_port EXCEPT ![i] = port[i]]
  /\ wpc' = [wpc EXCEPT ![i] = "run"]
  /\ UNCHANGED <<args, cpc, outcome, llms, calls, has_start_info, probe,
                 port, started_event, thread, sock, inflight, elapsed, sd,
                 sdCount, sdJoins, ext>>
  /\ UNCHANGED <<api, lock, acc, poll, od>>

\* run_server: self.server.run() starts to serve, or ends the thread when
\* the lifespan of server.py exits (no model) or the port cannot be bound
MainWorkerRun(i) ==
  /\ wpc[i] = "run"
  /\ \E model_loaded \in BOOLEAN :
       IF model_loaded /\ uvicorn_port[i] \notin HeldPorts
       THEN /\ wpc' = [wpc EXCEPT ![i] = "main_loop"]
            /\ sock' = [sock EXCEPT ![i] = "listening"]
       ELSE /\ wpc' = [wpc EXCEPT ![i] = "died"]
            /\ UNCHANGED sock
  /\ UNCHANGED <<args, cpc, outcome, llms, calls, has_start_info, probe,
                 port, server, started_event, thread, should_exit, inflight,
                 elapsed, sd, sdCount, sdJoins, ext>>
  /\ UNCHANGED <<api, uvicorn_port, ctx>>

\* server.shutdown() by the caller, or __del__ once the instance is dropped
MainCallShutdown(i) ==
  /\ cpc[i] \in {"returned", "raised"}
  /\ sd[i] = "idle"
  /\ sdCount[i] < MaxShutdowns
  /\ sd' = [sd EXCEPT ![i] = "stop"]
  /\ UNCHANGED <<args, cpc, outcome, llms, calls, has_start_info, probe,
                 port, server, started_event, thread, wpc, should_exit, sock,
                 inflight, elapsed, sdCount, sdJoins, ext>>
  /\ UNCHANGED <<api, uvicorn_port, ctx>>

\* shutdown(): if serving_thread: serving_thread.stop();
\* del app.state.serving_thread
MainSdStop(i) ==
  /\ sd[i] = "stop"
  /\ should_exit' = [j \in Servers |->
                       IF j \in StopTargets THEN TRUE ELSE should_exit[j]]
  /\ serving_thread' = 0
  /\ sd' = [sd EXCEPT ![i] = "join"]
  /\ UNCHANGED <<args, cpc, outcome, llms, calls, has_start_info, probe,
                 port, server, started_event, thread, wpc, sock, inflight,
                 elapsed, sdCount, sdJoins, ext>>
  /\ UNCHANGED <<api, uvicorn_port, lock, acc, poll, od>>

\* shutdown(): if self.thread and self.thread.is_alive():
\* self.thread.join(timeout=5); self.thread = None.  An instance whose
\* __init__ raised before "self.thread = None" has no such attribute, and
\* the test raises AttributeError.
MainSdJoin(i) ==
  /\ sd[i] = "join"
  /\ thread' = [thread EXCEPT ![i] = IF @ = "unset" THEN @ ELSE "None"]
  /\ sdJoins' = [sdJoins EXCEPT ![i] =
                   IF thread[i] = "Thread" /\ Alive(i) THEN 1 ELSE 0]
  /\ sd' = [sd EXCEPT ![i] = "idle"]
  /\ sdCount' = [sdCount EXCEPT ![i] = @ + 1]
  /\ UNCHANGED <<args, cpc, outcome, llms, calls, has_start_info, probe,
                 port, server, started_event, wpc, should_exit, sock,
                 inflight, elapsed, ext>>
  /\ UNCHANGED <<api, uvicorn_port, ctx>>

MainStep(i) ==
  \/ MainConstruct(i)
  \/ PollLoop(i)
  \/ PollAlive(i)
  \/ PollGet(i)
  \/ MainWaitDone(i)
  \/ MainWorkerInit(i)
  \/ MainWorkerRun(i)
  \/ WorkerTick(i)
  \/ WorkerExit(i)
  \/ MainCallShutdown(i)
  \/ MainSdStop(i)
  \/ MainSdJoin(i)

\* --------------------------------- shutdown() run by a second context
\* A second thread (or the destructor) calls shutdown() on the instance
\* while the first context may be inside a shutdown() of its own.  Every
\* evaluation of self.thread is a read of its own.
OtherCall(i) ==
  /\ od[i] = "idle"
  /\ cpc[i] \in {"returned", "raised"}
  /\ od' = [od EXCEPT ![i] = "flag"]
  /\ UNCHANGED <<args, cpc, outcome, llms, calls, has_start_info, probe,
                 port, server, started_event, thread, wpc, should_exit, sock,
                 inflight, elapsed, sd, sdCount, sdJoins, ext>>
  /\ UNCHANGED <<api, uvicorn_port, lock, acc, poll, serving_thread>>

\* if hasattr(self, "start_info") and ... : server.should_exit = True
OtherFlag(i) ==
  /\ od[i] = "flag"
  /\ should_exit' = [j \in Servers |->
                       IF j \in ExitTargets(i) THEN TRUE ELSE should_exit[j]]
  /\ od' = [od EXCEPT ![i] = "test_thread"]
  /\ UNCHANGED <<args, cpc, outcome, llms, calls, has_start_info, probe,
                 port, server, started_event, thread, wpc, sock,
                 inflight, elapsed, sd, sdCount, sdJoins, ext>>
  /\ UNCHANGED <<api, uvicorn_port, lock, acc, poll, serving_thread>>

\* hasattr(self, "thread") and self.thread
OtherTestThread(i) ==
  /\ od[i] = "test_thread"
  /\ od' = [od EXCEPT ![i] = IF thread[i] = "Thread" THEN "test_alive"
                             ELSE "clear"]
  /\ UNCHANGED <<args, cpc, outcome, llms, calls, has_start_info, probe,
                 port, server, started_event, thread, wpc, should_exit, sock,
                 inflight, elapsed, sd, sdCount, sdJoins, ext>>
  /\ UNCHANGED <<api, uvicorn_port, lock, acc, poll, serving_thread>>

\* self.thread.is_alive(): AttributeError when self.thread is None by now
OtherTestAlive(i) ==
  /\ od[i] = "test_alive"
  /\ od' = [od EXCEPT ![i] = IF thread[i] # "Thread" THEN "raised"
                             ELSE IF Alive(i) THEN "join_call"
                             ELSE "clear"]
  /\ UNCHANGED <<args, cpc, outcome, llms, calls, has_start_info, probe,
                 port, server, started_event, thread, wpc, should_exit, sock,
                 inflight, elapsed, sd, sdCount, sdJoins, ext>>
  /\ UNCHANGED <<api, uvicorn_port, lock, acc, poll, serving_thread>>

\* self.thread.join(timeout=5): AttributeError when self.thread is None by
\* now
OtherJoinCall(i) ==
  /\ od[i] = "join_call"
  /\ od' = [od EXCEPT ![i] = IF thread[i] # "Thread" THEN "raised"
                             ELSE "joining"]
  /\ UNCHANGED <<args, cpc, outcome, llms, calls, has_start_info, probe,
                 port, server, started_event, thread, wpc, should_exit, sock,
                 inflight, elapsed, sd, sdCount, sdJoins, ext>>
  /\ UNCHANGED <<api, uvicorn_port, lock, acc, poll, serving_thread>>

\* the join returns
OtherJoinReturn(i) ==
  /\ od[i] = "joining"
  /\ JoinReturns(i)
  /\ od' = [od EXCEPT ![i] = "clear"]
  /\ UNCHANGED <<args, cpc, outcome, llms, calls, has_start_info, probe,
                 port, server, started_event, thread, wpc, should_exit, sock,
                 inflight, elapsed, sd, sdCount, sdJoins, ext>>
  /\ UNCHANGED <<api, uvicorn_port, lock, acc, poll, serving_thread>>

\* self.thread = None, and the return
OtherClear(i) ==
  /\ od[i] = "clear"
  /\ thread' = [thread EXCEPT ![i] = ThreadCleared(i)]
  /\ od' = [od EXCEPT ![i] = "done"]
  /\ UNCHANGED <<args, cpc, outcome, llms, calls, has_start_info, probe,
                 port, server, started_event, wpc, should_exit, sock,
                 inflight, elapsed, sd, sdCount, sdJoins, ext>>
  /\ UNCHANGED <<api, uvicorn_port, lock, acc, poll, serving_thread>>

OtherStep(i) ==
  \/ OtherCall(i)
  \/ OtherFlag(i)
  \/ OtherTestThread(i)
  \/ OtherTestAlive(i)
  \/ OtherJoinCall(i)
  \/ OtherJoinReturn(i)
  \/ OtherClear(i)

\* ---------------------------------------------------- the specification
CallerStep(i) ==
  \/ ProbeBind(i)
  \/ ProbeRelease(i)
  \/ Spawn(i)
  \/ WaitCheckEvent(i)
  \/ WaitCheckAlive(i)
  \/ WaitCheckTime(i)
  \/ SdFlag(i)
  \/ SdJoinCheck(i)
  \/ SdJoinReturn(i)

WorkerStep(i) ==
  \/ WorkerRegister(i)
  \/ WorkerStartup(i)
  \/ WorkerSetEvent(i)
  \/ WorkerAfterStartup(i)
  \/ WorkerTick(i)
  \/ WorkerExit(i)

\* Another process binds a free port, or closes its socket.  Other
\* processes never use up the last free port.
ExtBind ==
  /\ Cardinality(ext) < NumPorts - 1
  /\ \E p \in Ports \ HeldPorts : ext' = ext \cup {p}
  /\ UNCHANGED <<args, cpc, outcome, llms, calls, has_start_info, probe,
                 port, server, started_event, thread, wpc, should_exit, sock,
                 inflight, elapsed, sd, sdCount, sdJoins>>
  /\ UNCHANGED <<api, uvicorn_port, ctx>>

ExtRelease ==
  /\ \E p \in ext : ext' = ext \ {p}
  /\ UNCHANGED <<args, cpc, outcome, llms, calls, has_start_info, probe,
                 port, server, started_event, thread, wpc, should_exit, sock,
                 inflight, elapsed, sd, sdCount, sdJoins>>
  /\ UNCHANGED <<api, uvicorn_port, ctx>>

\* Everything an instance and its worker can do.
Step(i, configs) ==
  \/ Construct(i, configs)
  \/ CallerStep(i)
  \/ CallShutdown(i)
  \/ WorkerStep(i)
  \/ RequestStart(i)
  \/ RequestFinish(i)

\* One instance, in a machine whose other processes bind ports too.
Next == Step(1, Configs) \/ ExtBind \/ ExtRelease

Spec == Init /\ [][Next]_vars

\* The caller's thread keeps running: the constructor and every shutdown()
\* it has entered take their next step.  Nothing is assumed of the worker.
FairSpec == Spec /\ WF_vars(Construct(1, Configs) \/ CallerStep(1))

\* Two instances constructed and shut down concurrently in one process
\* (no other process binds ports, no request is sent).
NextTwo ==
  \E i \in Servers :
    Construct(i, ConfigsTwo) \/ CallerStep(i) \/ CallShutdown(i) \/ WorkerStep(i)

SpecTwo == Init /\ [][NextTwo]_vars

\* parse_server_args on its own: the first statement of the constructor,
\* over LoadConfigs and every state of the hub.
NextLoad == Construct(1, LoadConfigs)

SpecLoad == Init /\ [][NextLoad]_vars

\* One instance among other processes, and a caller that reads the
\* connection parameters of the instance.
NextClient == Next \/ ClientArgs(1)

SpecClient == Init /\ [][NextClient]_vars

\* The resolver on its own, over ResolveNames and Listings.
NextResolve == ResolveName \/ ResolveRepo

SpecResolve == Init /\ [][NextResolve]_vars

\* The arguments of the instances that serve requests: one model with an
\* alias, and two models.
ServeConfigs ==
  { Config(Names(TRUE, <<"gemma-3-270m">>), << <<"fast", "gemma-3-270m">> >>),
    Config(Names(TRUE, <<"gemma-3-270m", "acme/tiny">>), << >>) }

\* One instance and the clients of its HTTP endpoints.
NextServe ==
  \/ Construct(1, ServeConfigs)
  \/ CallerStep(1)
  \/ CallShutdown(1)
  \/ WorkerStep(1)
  \/ ListModels(1)
  \/ CreateChatCompletion(1)

SpecServe == Init /\ [][NextServe]_vars

\* load on its own, over DownloadedModels, CoreCounts and LoadKwargs.
NextEngine == LoadModel

SpecEngine == Init /\ [][NextEngine]_vars

\* One StartInfo and the two contexts that call its properties in any
\* order; a context that is inside "with self._lock" keeps running.
NextStartInfo == \E c \in Contexts : AccStep(c)

SpecStartInfo ==
  /\ Init
  /\ [][NextStartInfo]_vars
  /\ \A c \in Contexts : WF_vars(AccBody(c) \/ AccRelease(c))

\* One instance whose worker is watched by both readiness waits: the
\* constructor's _wait_for_start and a _wait_for_server.  The caller makes
\* no shutdown() call of its own.
NextWaits ==
  \/ Construct(1, Configs)
  \/ CallerStep(1)
  \/ WorkerStep(1)
  \/ PollStep(1)
  \/ ExtBind
  \/ ExtRelease

SpecWaits == Init /\ [][NextWaits]_vars

\* The alternate implementation (main.py): two instances constructed and
\* shut down in one process.
NextMain == \E i \in Servers : MainStep(i)

SpecMain == Init /\ [][NextMain]_vars

\* One instance on which two contexts call shutdown().
NextRace ==
  \/ Construct(1, Configs)
  \/ CallerStep(1)
  \/ CallShutdown(1)
  \/ WorkerStep(1)
  \/ OtherStep(1)

SpecRace == Init /\ [][NextRace]_vars

\* ------------------------------------------------------------ properties
\* The constructor of instance i got past parse_server_args.
Loaded(i) == has_start_info[i]
WaitPcs == {"wait_event", "wait_alive", "wait_time"}
Ended(i) == cpc[i] \in {"returned", "raised"}

\* C1: a construction whose configuration validated and loaded ends its
\* readiness wait in exactly one of three ways: it returns with the
\* readiness event set, it raises the worker-died error, or it raises the
\* startup-timeout error.  A poll that finds the elapsed time above the
\* ceiling never sleeps again, and under a running caller thread the
\* constructor always ends, whatever the worker does.
C1_OutcomeOfWait(i) ==
  /\ cpc[i] = "returned" => outcome[i] = Returned /\ started_event[i]
  /\ (cpc[i] = "raised" /\ Loaded(i)) => outcome[i] \in {WorkerDied, StartupTimeout}
  /\ (Loaded(i) /\ ~Ended(i)) => outcome[i] = NoOutcome
C1_NoPollPastCeiling(i) ==
  (cpc[i] = "wait_time" /\ elapsed[i] > Timeout)
    => cpc'[i] \in {"wait_time", "timeout_shutdown"}
C1_WaitEnds ==
  /\ [](\A i \in Servers : C1_OutcomeOfWait(i))
  /\ [][\A i \in Servers : C1_NoPollPastCeiling(i)]_vars
  /\ \A i \in Servers : Loaded(i) ~> Ended(i)
C1_Witness ==
  /\ cpc[1] = "raised"
  /\ outcome[1] = StartupTimeout
  /\ sdCount[1] = 1
  /\ Alive(1)

\* C2: whenever the readiness event is set, the worker's HTTP server has
\* bound its listening socket, on every startup path of the worker.
C2_EventImpliesBound ==
  \A i \in Servers : started_event[i] => sock[i] # "none"
\* The same, on the startup paths of a non-empty serving configuration.
C2_EventImpliesBoundNonEmpty ==
  \A i \in Servers :
    (started_event[i] /\ DOMAIN llms[i] # {}) => sock[i] # "none"

\* C3: once a shutdown() invoked after the worker was spawned has returned
\* and the instance has dropped its thread reference, a worker that is
\* still running has had the exit flag set on its HTTP server (so that it
\* leaves its serving loop instead of serving forever).
C3_ExitFlagDelivered ==
  \A i \in Servers :
    (sdCount[i] >= 1 /\ sd[i] = "idle" /\ thread[i] = "None" /\ Alive(i))
      => should_exit[i]

\* C4: shutdown() is idempotent: a call made after a first call has
\* completed, or on an instance whose worker thread has already ended,
\* starts no join, and every completed call leaves the thread reference
\* None.
C4_Stopped(i) ==
  /\ (sdCount[i] >= 1 /\ sd[i] = "idle") => thread[i] = "None"
  /\ (sdCount[i] >= 1 /\ sd[i] # "idle") => sd[i] # "joining" /\ sdJoins[i] = 0
  /\ sdCount[i] >= 2 => sdJoins[i] = 0
C4_NoJoinWhenStopped(i) ==
  (thread[i] = "None" \/ (thread[i] = "Thread" /\ ~Alive(i)))
    => /\ sdJoins'[i] <= sdJoins[i]
       /\ sd[i] # "joining" => sd'[i] # "joining"
       /\ thread[i] = "None" => thread'[i] = "None"
C4_ShutdownIdempotent ==
  /\ [](\A i \in Servers : C4_Stopped(i))
  /\ [][\A i \in Servers : C4_NoJoinWhenStopped(i)]_vars
C4_Witness ==
  /\ cpc[1] = "returned"
  /\ sdCount[1] = 2
  /\ sd[1] = "idle"
  /\ thread[1] = "None"

\* C5: shutdown() joins the worker at most once and always returns: a
\* join that ends with the worker still running (for instance inside a
\* request handler) returns to the caller like a join that succeeded,
\* changing nothing but the thread reference.
C5_JoinReturnsNormally(i) ==
  (sd[i] = "joining" /\ sd'[i] # "joining")
    => /\ sd'[i] = "idle"
       /\ sdCount'[i] = sdCount[i] + 1
       /\ thread'[i] = "None"
       /\ wpc'[i] = wpc[i]
       /\ cpc[i] # "timeout_shutdown" => outcome'[i] = outcome[i]
       /\ cpc[i] = "timeout_shutdown" => outcome'[i] = StartupTimeout
C5_ShutdownReturns ==
  /\ [](\A i \in Servers : sdJoins[i] <= 1)
  /\ [][\A i \in Servers : C5_JoinReturnsNormally(i)]_vars
  /\ \A i \in Servers : (sd[i] # "idle") ~> (sd[i] = "idle")
C5_Witness ==
  /\ sd[1] = "idle"
  /\ sdCount[1] = 1
  /\ sdJoins[1] = 1
  /\ thread[1] = "None"
  /\ Alive(1)
  /\ inflight[1] > 0
  /\ outcome[1] = Returned

\* C6 as claimed: while the worker thread has ended without setting the
\* readiness event, the wait neither takes the timeout path nor returns.
DeadUnready(i) == wpc[i] \in {"died", "exited"} /\ ~started_event[i]
C6_DeadNeverTimesOut ==
  [][\A i \in Servers :
       (DeadUnready(i) /\ cpc[i] \in WaitPcs)
         => cpc'[i] \notin {"timeout_shutdown", "returned"}]_vars
\* C6: a worker thread that has ended without setting the readiness event
\* stays so; the wait never returns successfully, and its next aliveness
\* check raises the worker-died error.  The timeout error is reported
\* instead only from the ceiling check that follows an aliveness check
\* the worker passed.
C6_DiedAtNextCheck(i) ==
  DeadUnready(i)
    => /\ DeadUnready(i)'
       /\ cpc'[i] # "returned"
       /\ cpc[i] \in {"wait_event", "wait_alive"}
            => /\ cpc'[i] \in {"wait_event", "wait_alive", "raised"}
               /\ cpc'[i] = "raised" => outcome'[i] = WorkerDied
       /\ (cpc[i] = "wait_alive" /\ cpc'[i] # "wait_alive")
            => cpc'[i] = "raised" /\ outcome'[i] = WorkerDied
C6_WorkerDiedReported ==
  [][\A i \in Servers : C6_DiedAtNextCheck(i)]_vars
C6_Witness ==
  /\ cpc[1] = "raised"
  /\ outcome[1] = WorkerDied
  /\ wpc[1] = "died"
  /\ ~started_event[1]
  /\ sdCount[1] = 0

\* C7: when construction has failed with the worker-died or the
\* startup-timeout error, shutdown() has run on the instance: the thread
\* reference is cleared.
C7_ShutdownBeforeRaise ==
  \A i \in Servers :
    (cpc[i] = "raised" /\ outcome[i] \in {WorkerDied, StartupTimeout})
      => sdCount[i] >= 1 /\ thread[i] = "None"

\* C8 as claimed: two instances constructed concurrently never hold the
\* same allocated port, and no worker's bind fails.
C8_DistinctPorts ==
  \A i, j \in Servers :
    (i # j /\ port[i] # 0 /\ port[j] # 0)
      => port[i] # port[j] /\ wpc[i] # "died"
\* C8: two instances constructed concurrently never have two sockets
\* (probe or listening) bound to one port at the same time, and a probe
\* is never given a port that some socket is bound to; so the allocated
\* ports are distinct unless one instance probed while the other had
\* released its probe socket and its worker had not bound yet.  A
\* worker's bind fails only when the other instance was given the same
\* port.
HoldsPort(i) == probe[i] # 0 \/ sock[i] = "listening"
HeldPort(i) == IF probe[i] # 0 THEN probe[i] ELSE port[i]
C8_NoSharedBinding ==
  \A i, j \in Servers :
    (i # j /\ HoldsPort(i) /\ HoldsPort(j)) => HeldPort(i) # HeldPort(j)
C8_BindFailsOnlyOnSamePort ==
  \A i \in Servers :
    wpc[i] = "died"
      => \E j \in Servers \ {i} : port[i] \in {port[j], probe[j]}
C8_ProbeGivenFreePort(i) ==
  (probe[i] = 0 /\ probe'[i] # 0) => probe'[i] \notin HeldPorts
C8_PortsDistinctWhileHeld ==
  /\ [](C8_NoSharedBinding /\ C8_BindFailsOnlyOnSamePort)
  /\ [][\A i \in Servers : C8_ProbeGivenFreePort(i)]_vars
C8_Witness ==
  /\ sock[1] = "listening"
  /\ sock[2] = "listening"
  /\ port[1] # port[2]
  /\ started_event[1]
  /\ started_event[2]

\* C9: a step of one instance's shutdown() (its start, the setting of the
\* exit flag, the join, the clearing of the thread reference) leaves every
\* other instance's exit flag, thread, readiness event, port,
\* configuration, server handle, socket and worker unchanged.
C9_OthersUnchanged(i, j) ==
  /\ should_exit'[j] = should_exit[j]
  /\ thread'[j] = thread[j]
  /\ started_event'[j] = started_event[j]
  /\ port'[j] = port[j]
  /\ llms'[j] = llms[j]
  /\ server'[j] = server[j]
  /\ sock'[j] = sock[j]
  /\ wpc'[j] = wpc[j]
  /\ sd'[j] = sd[j]
  /\ sdJoins'[j] = sdJoins[j]
  /\ cpc'[j] = cpc[j]
C9_ShutdownIsLocal ==
  [][\A i, j \in Servers :
       (i # j /\ (sd'[i] # sd[i] \/ sdCount'[i] # sdCount[i]))
         => C9_OthersUnchanged(i, j)]_vars
C9_Witness ==
  /\ sdCount[1] >= 1
  /\ should_exit[1]
  /\ thread[1] = "None"
  /\ wpc[2] = "main_loop"
  /\ started_event[2]
  /\ ~should_exit[2]
  /\ thread[2] = "Thread"

\* C10: parse_server_args rejects a model_names that is not a tuple with
\* the TypeError first, then an alias whose target is not in model_names
\* with the ValueError naming that target; a construction that made a
\* resolver, download or load call, allocated a port or spawned a worker
\* had passed both checks, and one that failed a check did none of those.
NoIO(i) ==
  /\ calls[i] = << >>
  /\ ~has_start_info[i]
  /\ probe[i] = 0
  /\ port[i] = 0
  /\ thread[i] # "Thread"
  /\ wpc[i] = "none"
BadTargets(i) ==
  {k \in 1..Len(args[i].aliases) :
     \A n \in 1..Len(args[i].model_names.names) :
       args[i].model_names.names[n] # args[i].aliases[k][2]}
AliasKeys(i) == {args[i].aliases[k][1] : k \in 1..Len(args[i].aliases)}
ModelNames(i) == SeqToSet(args[i].model_names.names)
ChainedAliases(i) ==
  {k \in 1..Len(args[i].aliases) :
     args[i].aliases[k][2] \in AliasKeys(i) \ ModelNames(i)}
C11_AliasesNotTransitive ==
  \A i \in Servers :
    (cpc[i] # "new" /\ args[i].model_names.isTuple)
      => /\ ChainedAliases(i) # {}
              => /\ cpc[i] = "raised"
                 /\ outcome[i].kind = "ValueError:Alias target not in model_names"
                 /\ outcome[i].about \notin ModelNames(i)
                 /\ \E k \in 1..Len(args[i].aliases) :
                      outcome[i].about = args[i].aliases[k][2]
                 /\ NoIO(i)
                 /\ sock[i] = "none"
                 /\ llms[i] = EmptyDict
         /\ Loaded(i)
              => \A k \in 1..Len(args[i].aliases) :
                   args[i].aliases[k][2] \in ModelNames(i)
C11_Witness ==
  /\ cpc[1] = "raised"
  /\ args[1].aliases = << <<"alias-1", "acme/tiny">>, <<"alias-2", "alias-1">> >>
  /\ ChainedAliases(1) = {2}
  /\ outcome[1].about = "alias-1"
  /\ wpc[1] = "none"
  /\ sdCount[1] = 1

\* C12: in the serving configuration of every accepted construction, each
\* alias maps to the same runtime handle as its target, and both the alias
\* and the target are keys of the configuration (so requests naming either
\* are dispatched to one handle).
C12_AliasSharesTargetHandle ==
  \A i \in Servers :
    Loaded(i)
      => \A k \in 1..Len(args[i].aliases) :
           LET alias == args[i].aliases[k][1]
               target == args[i].aliases[k][2]
           IN /\ alias \in DOMAIN llms[i]
              /\ target \in DOMAIN llms[i]
              /\ llms[i][alias] = llms[i][target]
\* The same, for the aliases whose target is not the key of a later entry
\* of the aliases mapping.
C12_AliasSharesHandleUnlessRebound ==
  \A i \in Servers :
    Loaded(i)
      => \A k \in 1..Len(args[i].aliases) :
           LET alias == args[i].aliases[k][1]
               target == args[i].aliases[k][2]
           IN /\ alias \in DOMAIN llms[i]
              /\ target \in DOMAIN llms[i]
              /\ (\A j \in (k + 1)..Len(args[i].aliases) :
                    args[i].aliases[j][1] # target)
                   => llms[i][alias] = llms[i][target]

\* C13: the load loop creates one engine per distinct local path: every
\* identifier of model_names is downloaded, every downloaded path is loaded
\* exactly once, and two identifiers (repeated ones included) share a
\* handle exactly when their downloads gave the same path.  (Identifiers
\* that are also alias keys are rebound after the loop and are left out.)
Downloads(i) == SelectSeq(calls[i], LAMBDA c : c.op = "hf_hub_download")
Loads(i) == SelectSeq(calls[i], LAMBDA c : c.op = "Llama")
PathOf(c) == <<c.repo, c.file>>
ListedIds(i) == {listed[i].data[k].id : k \in 1..Len(listed[i].data)}
C14_ListIsTheKeys(i) ==
  listed[i].status # 0
    => /\ listed[i].status = 200
       /\ ListedIds(i) = DOMAIN llms[i]
       /\ Len(listed[i].data) = Cardinality(DOMAIN llms[i])
       /\ ModelNames(i) \cup AliasKeys(i) = ListedIds(i)
C14_ListStatic ==
  /\ [](\A i \in Servers : C14_ListIsTheKeys(i))
  /\ [][\A i \in Servers : listed[i].status # 0 => listed'[i] = listed[i]]_vars
C14_Witness ==
  /\ ListedIds(1) = {"gemma-3-270m", "fast"}
  /\ Len(listed[1].data) = 2
  /\ prev[1].status = 404
  /\ last[1].status = 500
  /\ Serving(1)

\* C15: a chat completion request whose model is not a key of the serving
\* configuration is answered 404 with the detail "Model '<model>' not
\* found", without a call of any runtime handle; answering it changes
\* nothing of the instance, its worker or its configuration, and a request
\* for a configured identifier or alias that follows it is dispatched to
\* that key's handle and answered.
Exchanges(i) == {e \in {prev[i], last[i]} : e.status # 0}
C15_UnknownIs404(i) ==
  \A e \in Exchanges(i) :
    e.request.model \notin DOMAIN llms[i]
      => /\ e.status = 404
         /\ e.detail = <<"Model '", e.request.model, "' not found">>
         /\ e.call = NoCall
         /\ e.body = << >>
C15_LaterStillServed(i) ==
  (prev[i].status = 404 /\ last[i].request.model \in DOMAIN llms[i])
    => /\ last[i].call # NoCall
       /\ last[i].call.handle = llms[i][last[i].request.model]
       /\ last[i].status \in {200, 500}
C15_NotFoundChangesNothing(i) ==
  (<<last[i], prev[i]>>' # <<last[i], prev[i]>> /\ last'[i].status = 404)
    => UNCHANGED <<args, cpc, outcome, llms, calls, has_start_info, probe,
                   port, server, started_event, thread, wpc, should_exit,
                   sock, inflight, elapsed, sd, sdCount, sdJoins, ext,
                   client, listed, resolved, uvicorn_port>>
C15_UnknownModelNotFound ==
  /\ [](\A i \in Servers : C15_UnknownIs404(i) /\ C15_LaterStillServed(i))
  /\ [][\A i \in Servers : C15_NotFoundChangesNothing(i)]_vars
C15_Witness ==
  /\ prev[1].status = 404
  /\ prev[1].request.model = "nonesuch"
  /\ last[1].status = 200
  /\ last[1].request.model = "fast"
  /\ last[1].call.handle = llms[1]["gemma-3-270m"]
  /\ Serving(1)

\* C16: every chat completion request for a configured model on which the
\* inference engine fails, whether it asks for streaming or not, is
\* answered 500 with the engine's error message as the detail.
C16_FailureIs500WithMessage ==
  \A i \in Servers :
    \A e \in Exchanges(i) :
      (e.call # NoCall /\ EngineFault(e.request.messages) # NoFault)
        => /\ e.status = 500
           /\ e.detail = <<EngineFault(e.request.messages).msg>>
\* The same, for the failures raised inside the handler's call of the
\* engine: every failure of a request without streaming, and the failures
\* of a streaming request that come before the iterator is returned.
C16_CallFailureIs500WithMessage ==
  \A i \in Servers :
    \A e \in Exchanges(i) :
      (e.call # NoCall /\ RaisedInCall(e.call))
        => /\ e.status = 500
           /\ e.detail = <<EngineFault(e.request.messages).msg>>

\* C17: every dispatched chat completion calls the handle of its model
\* with the request's messages, max_tokens and stream flag, with the
\* temperature given or else 0, and the top_p given or else 0.95; two
\* requests to one server that are identical once the defaults are filled
\* in, with temperature 0, are dispatched to the same handle with the same
\* arguments and get the same answer.
C17_DispatchedAsRequested(i) ==
  \A e \in Exchanges(i) :
    e.call # NoCall
      => /\ e.call.handle = llms[i][e.request.model]
         /\ e.call.messages = e.request.messages
         /\ e.call.temperature
              = (IF e.request.temperature = Absent THEN 0
                 ELSE e.request.temperature[1])
         /\ e.call.top_p
              = (IF e.request.top_p = Absent THEN 95 ELSE e.request.top_p[1])
         /\ e.call.max_tokens
              = (IF e.request.max_tokens = Absent THEN -1
                 ELSE e.request.max_tokens[1])
         /\ e.call.stream = (e.request.stream = Given(TRUE))
SameButTemperature(r1, r2) ==
  [r1 EXCEPT !.temperature = Absent] = [r2 EXCEPT !.temperature = Absent]
ZeroTemperature(r) == r.temperature \in {Absent, Given(0)}
C17_SameAnswer(i) ==
  (/\ prev[i].status # 0
   /\ prev[i].call # NoCall
   /\ last[i].call # NoCall
   /\ SameButTemperature(prev[i].request, last[i].request)
   /\ ZeroTemperature(prev[i].request)
   /\ ZeroTemperature(last[i].request))
    => /\ last[i].call = prev[i].call
       /\ last[i].status = prev[i].status
       /\ last[i].detail = prev[i].detail
       /\ last[i].body = prev[i].body
C17_DeterministicAtZero ==
  \A i \in Servers : C17_DispatchedAsRequested(i) /\ C17_SameAnswer(i)
C17_Witness ==
  /\ prev[1].status = 200
  /\ last[1].status = 200
  /\ prev[1].request.temperature = Absent
  /\ last[1].request.temperature = Given(0)
  /\ SameButTemperature(prev[1].request, last[1].request)
  /\ last[1].request.max_tokens = Given(30)
  /\ last[1].body = prev[1].body
  /\ last[1].body # << >>

\* C18: every descriptor openai_client_args() returned has the base URL
\* "http://127.0.0.1:<port>/v1" with the port stored in StartInfo when it
\* was allocated, and the api_key "fake-key"; the stored port never
\* changes, it is the port of the worker's uvicorn configuration and of
\* its listening socket, and a descriptor returned after shutdown() is the
\* one returned before.
HasDescriptor(i) == client[i] # NoDescriptor
C18_DescriptorOfPort(i) ==
  /\ HasDescriptor(i)
       => /\ port[i] \in Ports
          /\ client[i].ret.base_url = <<"http://127.0.0.1:", port[i], "/v1">>
          /\ client[i].ret.api_key = "fake-key"
  /\ server[i] => uvicorn_port[i] = port[i]
  /\ sock[i] # "none" => uvicorn_port[i] = port[i]
C18_DescriptorKept(i) ==
  /\ port[i] # 0 => port'[i] = port[i]
  /\ uvicorn_port[i] # 0 => uvicorn_port'[i] = uvicorn_port[i]
  /\ HasDescriptor(i) => client'[i].ret = client[i].ret
C18_ClientArgsStable ==
  /\ [](\A i \in Servers : C18_DescriptorOfPort(i))
  /\ [][\A i \in Servers : C18_DescriptorKept(i)]_vars
C18_Witness ==
  /\ client[1].stopped
  /\ client[1].ret.base_url[2] = port[1]
  /\ uvicorn_port[1] = port[1]
  /\ thread[1] = "None"
  /\ sock[1] = "closed"

\* C19: from_name returns the catalog's spec, without a call of the hub,
\* for a key of the catalog; for any other identifier that contains "/" it
\* lists the repository of that name, and a listing that fails gives the
\* ValueError "Could not list files for repo"; for every other identifier
\* it gives the ValueError "Model not supported", without a call of the
\* hub.
C19_FromNameDispatch ==
  resolved.op = "from_name"
    => LET name == resolved.name
           out == resolved.out
       IN /\ name \in DOMAIN SUPPORTED_MODEL_ALIASES
               => /\ out.err = NoError
                  /\ out.spec = SUPPORTED_MODEL_ALIASES[name]
                  /\ out.calls = << >>
          /\ (name \notin DOMAIN SUPPORTED_MODEL_ALIASES /\ HasSlash(name))
               => /\ out.calls = <<[op |-> "list_repo_files", repo |-> name,
                                    file |-> ""]>>
                  /\ ~resolved.listing.ok
                       => out.err = Error("ValueError:Could not list files for repo",
                                          name)
                  /\ out.err.kind \in {"ok", "ValueError:No .gguf files found in",
                                       "ValueError:Could not list files for repo"}
                  /\ out.err.kind = "ok" => out.spec.repo_id = name
          /\ (name \notin DOMAIN SUPPORTED_MODEL_ALIASES /\ ~HasSlash(name))
               => /\ out.err = Error("ValueError:Model not supported", name)
                  /\ out.calls = << >>
C19_Witness ==
  /\ resolved.op = "from_name"
  /\ resolved.name = "acme/tiny"
  /\ ~resolved.listing.ok
  /\ resolved.out.err = Error("ValueError:Could not list files for repo", "acme/tiny")

\* C20: for every listing of a repository, from_repo_id selects the first
\* listed file that ends in ".gguf" and whose lower-cased name contains
\* "q4_k_m", or else the first listed file that ends in ".gguf"; without
\* such a file it fails with the ValueError "No .gguf files found in"
\* naming the repository.  The selected file is one of the listing, and
\* the spec's model_name and repo_id are the repository identifier.
GgufAt(files) == {k \in 1..Len(files) : EndsWithGguf(files[k])}
PreferredAt(files) == {k \in GgufAt(files) : ContainsQ4KM(files[k])}
First(S) == CHOOSE k \in S : \A j \in S : k <= j
C20_SelectsPreferredGguf ==
  (resolved.op = "from_repo_id" /\ resolved.listing.ok)
    => LET files == resolved.listing.files
           out == resolved.out
       IN /\ GgufAt(files) = {}
               => out.err = Error("ValueError:No .gguf files found in",
                                  resolved.name)
          /\ GgufAt(files) # {}
               => /\ out.err = NoError
                  /\ out.spec.filename
                       = files[First(IF PreferredAt(files) # {}
                                     THEN PreferredAt(files) ELSE GgufAt(files))]
                  /\ EndsWithGguf(out.spec.filename)
                  /\ out.spec.filename \in SeqToSet(files)
                  /\ out.spec.model_name = resolved.name
                  /\ out.spec.repo_id = resolved.name
C20_Witness ==
  /\ resolved.op = "from_repo_id"
  /\ resolved.listing.files = <<"q4_k_m-notes.md", "tiny-f16.gguf", "tiny-q4_k_m.gguf">>
  /\ resolved.out.spec.filename = "tiny-q4_k_m.gguf"

\* ---------------------------------------------------------------- C21
\* The last call the constructor of instance i made to the hub or the engine.
LastCall(i) == calls[i][Len(calls[i])]
DownloadError(i) ==
  outcome[i].kind = "RuntimeError:Failed to download model from"
ValueErrorKinds ==
  {"ValueError:Could not list files for repo", "ValueError:No .gguf files found in",
   "ValueError:Model not supported", "ValueError:Alias target not in model_names"}
\* No StartInfo, no port, no probe socket, no worker thread.
NoServer(i) ==
  /\ ~has_start_info[i]
  /\ probe[i] = 0
  /\ port[i] = 0
  /\ uvicorn_port[i] = 0
  /\ thread[i] # "Thread"
  /\ wpc[i] = "none"
  /\ ~server[i]
\* The constructor of a one-model configuration raised right after a fetch:
\* the fetch failed.
FetchFailed(i) ==
  /\ cpc[i] = "raised"
  /\ ~Loaded(i)
  /\ Len(args[i].model_names.names) = 1
  /\ calls[i] # << >>
  /\ LastCall(i).op = "hf_hub_download"

\* C21: a failed fetch of the model file is reported as the download error
\* "Failed to download model from <repo_id>", which names the repository of
\* the fetch that failed and is none of the ValueError kinds (those are raised
\* with no fetch attempted); the constructor that raised it has allocated no
\* port and started no worker, and never does.
C21_DownloadFailureReported ==
  \A i \in Servers :
    /\ FetchFailed(i) => DownloadError(i)
    /\ DownloadError(i)
         => /\ cpc[i] = "raised"
            /\ calls[i] # << >>
            /\ LastCall(i).op = "hf_hub_download"
            /\ outcome[i].about = LastCall(i).repo
            /\ outcome[i].kind \notin ValueErrorKinds
            /\ NoServer(i)
    /\ (cpc[i] = "raised" /\ outcome[i].kind \in ValueErrorKinds)
         => (calls[i] = << >> \/ LastCall(i).op # "hf_hub_download")
C21_Witness ==
  /\ cpc[1] = "raised"
  /\ outcome[1] = Error("RuntimeError:Failed to download model from", "acme/tiny")
  /\ Len(calls[1]) = 2
  /\ calls[1][1].op = "list_repo_files"
  /\ calls[1][2] = [op |-> "hf_hub_download", repo |-> "acme/tiny",
                    file |-> "tiny-f16.gguf"]
  /\ sdCount[1] = 1
  /\ NoServer(1)

\* ---------------------------------------------------------------- C22
Positive(opt) == opt # << >> /\ opt[1] > 0
\* C22: the n_threads that load() passes to the engine is the n_threads
\* keyword when load() was given one; otherwise it is the physical core
\* count when that is a positive number, else the process core count when
\* that is a positive number, else 1, and so it is at least 1.
C22_ThreadCountFallback ==
  resolved.op = "load"
    => LET n == resolved.out.n_threads IN
       IF "n_threads" \in DOMAIN resolved.kwargs
       THEN n = resolved.kwargs.n_threads
       ELSE /\ n >= 1
            /\ IF Positive(resolved.physical) THEN n = resolved.physical[1]
               ELSE IF Positive(resolved.process) THEN n = resolved.process[1]
               ELSE n = 1
C22_Witness ==
  /\ resolved.op = "load"
  /\ resolved.physical = <<0>>
  /\ resolved.process = <<2>>
  /\ resolved.kwargs = EmptyDict
  /\ resolved.out.n_threads = 2
  /\ resolved.out.model_path = <<"acme/tiny", "tiny-f16.gguf">>

\* ---------------------------------------------------------------- C23
\* The worker thread of instance i was started.
Spawned(i) == wpc[i] # "none"
\* C23: when the worker thread starts the serving configuration holds every
\* configured identifier and every alias, and from the return of
\* parse_server_args on no step (worker start-up and exit, list models,
\* chat completion with any of its answers, readiness wait, shutdown)
\* changes the mapping: no key is added, removed or bound to another handle.
C23_ConfigurationReadOnly ==
  /\ [](\A i \in Servers :
          Spawned(i) => DOMAIN llms[i] = ModelNames(i) \cup AliasKeys(i))
  /\ [][\A i \in Servers : cpc[i] # "new" => llms'[i] = llms[i]]_vars
C23_Witness ==
  /\ wpc[1] = "exited"
  /\ sdCount[1] = 1
  /\ listed[1].status = 200
  /\ prev[1].status = 404
  /\ last[1].status = 500
  /\ DOMAIN llms[1] = {"gemma-3-270m", "fast"}

\* ---------------------------------------------------------------- C24
\* A context is between __enter__ and __exit__ of "with self._lock"
\* exactly when it holds the lock.
C24_InsideIffHolder ==
  \A c \in Contexts : (acc[c].pc \in InsideLock) <=> (lock = c)
\* _port and _server are written only by the lock's holder, in a setter.
C24_WritesUnderLock ==
  (port'[1] # port[1] \/ server'[1] # server[1])
    => /\ lock \in Contexts
       /\ lock' = lock
       /\ acc[lock].pc = "body"
       /\ acc[lock].op \in {"set_port", "set_server"}
\* A getter reads while it holds the lock, and returns the value the field
\* has then; the port getter raises "Port not set" when there is none.
C24_ReadsUnderLock ==
  \A c \in Contexts :
    (acc[c].pc = "body" /\ acc'[c].pc # "body" /\ acc[c].op \in {"get_port", "get_server"})
      => /\ lock = c
         /\ acc'[c].ret =
              IF acc[c].op = "get_server"
              THEN [err |-> "", port |-> 0, server |-> server[1]]
              ELSE IF port[1] = 0
                   THEN [err |-> PortNotSet, port |-> 0, server |-> FALSE]
                   ELSE [err |-> "", port |-> port[1], server |-> FALSE]
         /\ acc'[c].pc = IF acc'[c].ret.err = PortNotSet THEN "raise" ELSE "exit"
\* C24: every read and write of StartInfo's port and server fields is made
\* by the context that holds StartInfo's lock; the lock is held only by a
\* context inside a property, so it is released on every path, the
\* "Port not set" raise included; a context that waits for the lock gets it
\* released by its holder (no deadlock), and a read returns the field's
\* current value.
C24_StartInfoLockSafe ==
  /\ []C24_InsideIffHolder
  /\ [][C24_WritesUnderLock /\ C24_ReadsUnderLock]_vars
  /\ \A c \in Contexts : (lock = c) ~> (lock = "free")
C24_Witness ==
  /\ lock = "free"
  /\ acc["spawner"] = [op |-> "get_port", pc |-> "idle", arg |-> 0,
                       ret |-> [err |-> PortNotSet, port |-> 0, server |-> FALSE]]
  /\ acc["worker"].op = "set_server"
  /\ acc["worker"].pc = "acquire"
  /\ port[1] = 0

\* ---------------------------------------------------------------- C25
\* StartInfo's port is written only by the constructor, when it was unset,
\* after parse_server_args and before the worker thread exists.
C25_WrittenOnceBeforeSpawn(i) ==
  port'[i] # port[i]
    => /\ port[i] = 0
       /\ port'[i] \in Ports
       /\ Loaded(i)
       /\ cpc[i] = "probing"
       /\ thread[i] = "unset"
       /\ wpc[i] = "none"
\* The worker's read of start_info.port for uvicorn.Config finds the port.
C25_WorkerFindsPort(i) ==
  (wpc[i] = "init" /\ wpc'[i] # "init")
    => /\ port[i] \in Ports
       /\ uvicorn_port'[i] = port[i]
\* C25: the allocated port is written to StartInfo once, by the constructor,
\* after the configuration was resolved and before the worker thread is
\* started, and never changes afterwards; so the worker's read of the port
\* for its HTTP server configuration never meets an unset port.
C25_PortSetOnceBeforeWorker ==
  /\ [](\A i \in Servers : Spawned(i) => port[i] \in Ports)
  /\ [][\A i \in Servers :
          C25_WrittenOnceBeforeSpawn(i) /\ C25_WorkerFindsPort(i)]_vars
C25_Witness ==
  /\ wpc[1] = "exited"
  /\ sdCount[1] = 2
  /\ port[1] = 2
  /\ uvicorn_port[1] = 2
  /\ sock[1] = "closed"

\* ---------------------------------------------------------------- C26
\* Both waits of instance i have ended, neither by its timeout.
BothWaitsEnded(i) ==
  /\ cpc[i] \in {"returned", "raised"}
  /\ Loaded(i)
  /\ outcome[i] # StartupTimeout
  /\ poll[i].pc \in {"returned", "died"}
\* C26: for the same worker the event-based wait (_wait_for_start) and the
\* polling wait (_wait_for_server) end alike: both return, or both raise
\* the worker-died error.
C26_WaitsAgree ==
  \A i \in Servers :
    BothWaitsEnded(i)
      => /\ (cpc[i] = "returned") <=> (poll[i].pc = "returned")
         /\ (outcome[i] = WorkerDied) <=> (poll[i].pc = "died")
\* The two waits do end alike for a worker whose serving configuration is
\* not empty.
C26_WaitsAgreeNonEmpty ==
  \A i \in Servers :
    (BothWaitsEnded(i) /\ DOMAIN llms[i] # {})
      => /\ (cpc[i] = "returned") <=> (poll[i].pc = "returned")
         /\ (outcome[i] = WorkerDied) <=> (poll[i].pc = "died")

\* ---------------------------------------------------------------- C27
\* The step of instance i's shutdown() that signals stop (main.py).
MainStops(i) == sd[i] = "stop" /\ sd'[i] = "join"
\* C27 (main.py): the shutdown() of an instance sets the exit flag of no
\* other instance's ServingThread, and an instance whose worker is still
\* running when its shutdown() signals stop has set that worker's exit flag.
C27_StopsOwnWorkerOnly ==
  [][\A i \in Servers :
       MainStops(i)
         => /\ \A j \in Servers \ {i} : should_exit'[j] = should_exit[j]
            /\ (server[i] /\ Alive(i)) => should_exit'[i]]_vars

\* ---------------------------------------------------------------- C28
\* A shutdown() of instance i is past its exit-flag statement.
PastFlag(i) == sd[i] \in {"check", "joining"}
\* C28: whenever the readiness event is set, the worker has registered its
\* HTTP server in StartInfo; so a shutdown() called after the constructor
\* returned finds the server, sets should_exit on it in its first
\* statement, and has it set when it tests and joins the thread.
C28_EventImpliesServerRegistered ==
  /\ [](\A i \in Servers :
          /\ started_event[i] => server[i]
          /\ cpc[i] = "returned" => (started_event[i] /\ server[i])
          /\ (cpc[i] = "returned" /\ PastFlag(i)) => should_exit[i])
  /\ [][\A i \in Servers :
          (cpc[i] = "returned" /\ sd[i] = "flag" /\ sd'[i] # "flag")
            => (ExitTargets(i) = {i} /\ should_exit'[i] /\ sdJoins'[i] = 0)]_vars
C28_Witness ==
  /\ cpc[1] = "returned"
  /\ sd[1] = "joining"
  /\ sdCount[1] = 0
  /\ started_event[1]
  /\ server[1]
  /\ should_exit[1]
  /\ wpc[1] = "main_loop"

\* ---------------------------------------------------------------- C29
\* C29: two shutdown() calls that run at once on one instance both return
\* without raising, and when both have returned the exit flag of a
\* registered server is set and the thread reference is None.
C29_ConcurrentShutdownSafe ==
  \A i \in Servers :
    /\ od[i] # "raised"
    /\ (od[i] = "done" /\ sdCount[i] >= 1 /\ sd[i] = "idle")
         => /\ thread[i] = "None"
            /\ (Loaded(i) /\ server[i] /\ cpc[i] = "returned") => should_exit[i]

\* ---------------------------------------------------------------- C30
\* The constructor of instance i raised in parse_server_args, before
\* self.start_info and self.thread were assigned.
FailedEarly(i) == cpc[i] = "raised" /\ ~Loaded(i)
\* C30: on an instance whose constructor raised before StartInfo and the
\* thread reference were assigned, shutdown() (called by hand or by
\* __del__) does not raise, sets no exit flag, joins nothing and finds no
\* worker, and once it has returned the thread reference is None: the
\* instance is stopped.
C30_ShutdownAfterFailedConstruction ==
  \A i \in Servers :
    FailedEarly(i)
      => /\ sd[i] \notin {"raised", "joining"}
         /\ sdJoins[i] = 0
         /\ ~should_exit[i]
         /\ NoServer(i)
         /\ (sdCount[i] >= 1 /\ sd[i] = "idle") => thread[i] = "None"
C30_Witness ==
  /\ cpc[1] = "raised"
  /\ outcome[1] = Error("ValueError:Model not supported", "nonesuch")
  /\ ~has_start_info[1]
  /\ sdCount[1] = 2
  /\ sd[1] = "idle"
  /\ thread[1] = "None"

\* ---------------------------------------------------------------- C31
\* The handle of the engine loaded from the path that the k-th identifier of
\* model_names was downloaded to: the ordinal of that path's load call.
OwnHandle(i, k) ==
  LET path == PathOf(Downloads(i)[k])
  IN CHOOSE j \in 1..Len(Loads(i)) : PathOf(Loads(i)[j]) = path
\* C31: in the serving configuration of every accepted construction each
\* identifier of model_names maps to the handle loaded from its own
\* resolved path, whatever the aliases mapping contains.
C31_IdentifierKeepsOwnHandle ==
  \A i \in Servers :
    Loaded(i)
      => \A k \in 1..Len(args[i].model_names.names) :
           llms[i][args[i].model_names.names[k]] = OwnHandle(i, k)
\* The same, for the identifiers that are not keys of the aliases mapping.
C31_UnaliasedKeepsOwnHandle ==
  \A i \in Servers :
    Loaded(i)
      => \A k \in 1..Len(args[i].model_names.names) :
           args[i].model_names.names[k] \notin AliasKeys(i)
             => llms[i][args[i].model_names.names[k]] = OwnHandle(i, k)

\* ---------------------------------------------------------------- C32
\* Instance i was constructed with an empty model_names.
EmptyNames(i) == cpc[i] # "new" /\ args[i].model_names.names = << >>
\* C32: the constructor of an instance given an empty model_names never
\* returns: under every interleaving of the worker and the readiness wait
\* it raises.
C32_EmptyNeverReady ==
  \A i \in Servers : EmptyNames(i) => cpc[i] # "returned"
\* What does hold: the worker of such an instance refuses to start - it
\* binds no socket and never serves a request.
C32_EmptyNeverServes ==
  \A i \in Servers :
    EmptyNames(i) => (sock[i] = "none" /\ wpc[i] # "main_loop")

\* ---------------------------------------------------------------- C33
\* The worker thread of instance i is started in this step.
Spawns(i) == wpc[i] = "none" /\ wpc'[i] # "none"
\* C33: the lifecycle of an instance only moves forward: a set readiness
\* event stays set, a set exit flag stays set, and once shutdown() has set
\* the thread reference to None the reference stays None and no worker
\* thread is started for the instance.
C33_LifecycleMonotonic ==
  [][\A i \in Servers :
       /\ started_event[i] => started_event'[i]
       /\ should_exit[i] => should_exit'[i]
       /\ thread[i] = "None" => (thread'[i] = "None" /\ ~Spawns(i))
       /\ (thread[i] = "None" /\ ~Alive(i)) => ~Alive(i)']_vars
C33_Witness ==
  /\ sdCount[1] = 2
  /\ sd[1] = "idle"
  /\ thread[1] = "None"
  /\ started_event[1]
  /\ should_exit[1]
  /\ wpc[1] = "exited"
  /\ sock[1] = "closed"

====
